---- MODULE Spec2Model ----
(***************************************************************************)
(* Model of the issue-creation orchestrator of GitHub Manager              *)
(* (backend/src/modules/GitHubManager.ts): GitHubManager.createIssueWith-  *)
(* Branch and its helpers, run by concurrent requests against one GitHub   *)
(* repository.  Strings whose characters matter (project identifiers,     *)
(* titles, branch names) are sequences of one-character strings.           *)
(*                                                                         *)
(* Spec      : concurrent createIssueWithBranch calls                      *)
(* RouteSpec : concurrent requests to the inline route POST /issues/create,*)
(*             each passing the authentication middleware first            *)
(* FnSpec    : Spec, or one helper function applied to its own arguments   *)
(* AppSpec   : one page load of the React frontend (App, AuthSuccess,      *)
(*             Navbar and their useAuth states)                            *)
(***************************************************************************)
EXTENDS Integers, Sequences, FiniteSets, TLC

(* ------------------------------ bounds --------------------------------- *)
\* largest value of the wall clock (Date.now()), which starts at 1
MaxClock == 1
\* largest number of candidate branch names of request 1 that the repository
\* already holds when the requests arrive
MaxPre == 5

Procs == {1, 2}

(* --------------------------- character strings ------------------------- *)
UpperChars == <<"A","B","C","D","E","F","G","H","I","J","K","L","M",
                "N","O","P","Q","R","S","T","U","V","W","X","Y","Z">>
LowerChars == <<"a","b","c","d","e","f","g","h","i","j","k","l","m",
                "n","o","p","q","r","s","t","u","v","w","x","y","z">>
DigitChars == <<"0","1","2","3","4","5","6","7","8","9">>
Whitespace == {" ", "\t", "\n"}

Range(s) == {s[i] : i \in DOMAIN s}

IndexOf(c, s) == CHOOSE i \in DOMAIN s : s[i] = c

\* String.prototype.toLowerCase / toUpperCase on one character
LowerChar(c) == IF c \in Range(UpperChars) THEN LowerChars[IndexOf(c, UpperChars)] ELSE c
UpperChar(c) == IF c \in Range(LowerChars) THEN UpperChars[IndexOf(c, LowerChars)] ELSE c

toLowerCase(s) == [i \in DOMAIN s |-> LowerChar(s[i])]
toUpperCase(s) == [i \in DOMAIN s |-> UpperChar(s[i])]

\* s.substring(0, n)
substring(s, n) == SubSeq(s, 1, IF Len(s) < n THEN Len(s) ELSE n)

\* s.replace(/[^a-z0-9\s]/g, '')
RECURSIVE StripNonAlnum(_)
StripNonAlnum(s) ==
  IF s = <<>> THEN <<>>
  ELSE IF Head(s) \in Range(LowerChars) \cup Range(DigitChars) \cup Whitespace
       THEN <<Head(s)>> \o StripNonAlnum(Tail(s))
       ELSE StripNonAlnum(Tail(s))

\* s.replace(/\s+/g, '_'): every maximal run of whitespace becomes one '_'
RECURSIVE CollapseSpaces(_)
CollapseSpaces(s) ==
  IF s = <<>> THEN <<>>
  ELSE IF Head(s) \in Whitespace
       THEN IF Len(s) > 1 /\ s[2] \in Whitespace
            THEN CollapseSpaces(Tail(s))
            ELSE <<"_">> \o CollapseSpaces(Tail(s))
       ELSE <<Head(s)>> \o CollapseSpaces(Tail(s))

\* decimal rendering of a non-negative number (template literal `${n}`)
RECURSIVE ToDigits(_)
ToDigits(n) ==
  IF n < 10 THEN <<DigitChars[n + 1]>>
  ELSE ToDigits(n \div 10) \o <<DigitChars[(n % 10) + 1]>>

\* projectId.split('/')
RECURSIVE Split(_)
Split(s) ==
  IF \A i \in DOMAIN s : s[i] # "/" THEN <<s>>
  ELSE LET k == CHOOSE i \in DOMAIN s :
                  s[i] = "/" /\ \A j \in 1..(i-1) : s[j] # "/"
       IN <<SubSeq(s, 1, k - 1)>> \o Split(SubSeq(s, k + 1, Len(s)))

\* the value of a destructured array element that is missing
Undefined == <<"<undefined>">>

(* ------------------------------ naming --------------------------------- *)
\* prefixMap[type]: the object literal's own keys, then the properties every
\* object literal inherits from Object.prototype, rendered as the template
\* literal renders them; <<>> is undefined
prefixMap(type) ==
  CASE type = "FEATURE" -> <<"f","e","a","t","u","r","e">>
    [] type = "BUG"     -> <<"h","o","t","f","i","x">>
    [] type = "TASK"    -> <<"t","a","s","k">>
    [] type = "EPIC"    -> <<"e","p","i","c">>
    [] type = "constructor" -> <<"function Object() { [native code] }">>
    [] type = "toString"    -> <<"function toString() { [native code] }">>
    [] type = "__proto__"   -> <<"[object Object]">>
    [] OTHER            -> <<>>

\* faulty variant: the slug is not cut to 30 characters
generateBranchName_Untruncated(type, title, timestamp) ==
  LET sanitizedTitle == CollapseSpaces(StripNonAlnum(toLowerCase(title)))
      prefix == IF prefixMap(type) # <<>> THEN prefixMap(type) ELSE <<"t","a","s","k">>
      baseName == IF sanitizedTitle # <<>> THEN sanitizedTitle
                  ELSE <<"n","e","w","_","i","s","s","u","e">>
      suffix == IF timestamp # 0 THEN <<"_">> \o ToDigits(timestamp) ELSE <<>>
  IN prefix \o <<"/">> \o baseName \o suffix

\* generateBranchName(type, title, timestamp?); timestamp 0 stands for an
\* omitted argument (it is as falsy as undefined)
generateBranchName(type, title, timestamp) ==
  LET sanitizedTitle == substring(CollapseSpaces(StripNonAlnum(toLowerCase(title))), 30)
      prefix == IF prefixMap(type) # <<>> THEN prefixMap(type) ELSE <<"t","a","s","k">>
      baseName == IF sanitizedTitle # <<>> THEN sanitizedTitle
                  ELSE <<"n","e","w","_","i","s","s","u","e">>
      suffix == IF timestamp # 0 THEN <<"_">> \o ToDigits(timestamp) ELSE <<>>
  IN prefix \o <<"/">> \o baseName \o suffix

\* faulty variant: the prefix is not upper-cased
generateIssueKey_NoUpper(projectId, issueNumber) ==
  substring(projectId, 4) \o <<"-">> \o ToDigits(issueNumber)

\* generateIssueKey(projectId, issueNumber)
generateIssueKey(projectId, issueNumber) ==
  substring(toUpperCase(projectId), 4) \o <<"-">> \o ToDigits(issueNumber)


(* --------------------------- requests and state ------------------------ *)
ProjectIds == { <<"a","b","/","c","d">>,           \* owner/repo
                <<"a","b","/","c","d","/","e","f">>, \* three segments
                <<"a","b">>,                         \* no repository segment
                <<"a","b","/">> }                    \* empty repository segment

IssueTypes == {"FEATURE", "BUG"}

Titles == { <<"A","b">> }

\* IssueCreationOptions (the fields the workflow's control flow reads): every
\* type with the well-formed project identifier, and one request for each
\* other project identifier
IssueCreationOptions ==
  {r \in [projectId : ProjectIds, type : IssueTypes, title : Titles] :
     \/ r.projectId = <<"a","b","/","c","d">>
     \/ r.type = (IF Len(Split(r.projectId)) = 3 THEN "BUG" ELSE "FEATURE")}

\* the one repository that exists on GitHub
RepoOwner == <<"a","b">>
RepoName == <<"c","d">>
RepoExists(o, r) == o = RepoOwner /\ r = RepoName

Main == <<"m","a","i","n">>
Master == <<"m","a","s","t","e","r">>

\* commits the repository starts with: main's head and master's head
MainSha == 1
MasterSha == 2

\* object ids are content hashes, and the content of the blob, tree and
\* commit of a request is its own (key, branch name): the id GitHub answers
\* is a function of the request
ShaOf(p) == MasterSha + p

NoMainBranchMsg == "Repository has no main branch. Please ensure the repository has at least one commit and a default branch (main or master)."
ExhaustedMsg == "Unable to generate unique branch name after multiple attempts"

\* message of the error Octokit raises for a response status of GitHub
StatusMessage(status) ==
  CASE status = 404 -> "Not Found"
    [] status = 422 -> "Reference already exists"
    [] OTHER        -> "Server Error"

maxAttempts == 5

\* the access token of the user behind request p, one GitHub accepts
Token(p) == <<"g","h","p","_">> \o ToDigits(p)
\* a token GitHub does not know
BadToken == <<"x">>
ValidTokens == {Token(p) : p \in Procs}

\* 'Bearer ' + token
Bearer(token) == <<"B","e","a","r","e","r"," ">> \o token

\* s.replace(pat, rep) with a string pattern: the first occurrence only
replace(s, pat, rep) ==
  LET hits == {i \in 1..(Len(s) - Len(pat) + 1) : SubSeq(s, i, i + Len(pat) - 1) = pat} IN
    IF hits = {} THEN s
    ELSE LET i == CHOOSE j \in hits : \A k \in hits : j <= k IN
           SubSeq(s, 1, i - 1) \o rep \o SubSeq(s, i + Len(pat), Len(s))

\* req.headers.authorization?.replace('Bearer ', '')
TokenOfHeader(h) == IF h = Undefined THEN Undefined ELSE replace(h, Bearer(<<>>), <<>>)

\* the object the middleware stores in req.user
AuthenticatedUser(token) == [login |-> <<"u">> \o token, accessToken |-> token]
NoUser == [login |-> Undefined, accessToken |-> Undefined]

\* new Octokit({auth})
Octokit(auth) == [auth |-> auth]
NoClient == [auth |-> Undefined]

VARIABLES
  refs,        \* GitHub: branch name -> sha of the commit it points at
  commits,     \* GitHub: commit objects, sha -> [tree, parents]
  trees,       \* GitHub: tree objects, sha -> set of paths
  blobs,       \* GitHub: blob objects, sha -> content
  issues,      \* GitHub: issues of the repository, in creation order
  pulls,       \* GitHub: pull requests of the repository, in creation order
  now,         \* Date.now() when it was last read
  req,         \* options of each createIssueWithBranch call
  pc,          \* position of each call
  owner, repo, \* projectId.split('/')
  branchName, attempt, baseBranch, baseRef,   \* createUniqueBranch locals
  issue, issueKey,                            \* createIssueWithBranch locals
  ci,          \* createInitialCommit locals
  initialCommit, pr,
  result,      \* value the call resolved with
  error,       \* message of the error the call rejected with
  calls,       \* remote calls issued by each call, in order
  response,    \* HTTP responses sent to each request of the /create route
  call,        \* a helper function applied on its own: its name and arguments
  ret,         \* the value that application returned
  headers,     \* req.headers.authorization of each request
  user,        \* req.user of each request
  nextCalls,   \* how often the middleware called next() for each request
  octokit,     \* the Octokit client each request works with
  localStorage,  \* browser: the items github_token and github_user
  location,      \* browser: pathname of the router's location
  searchParams,  \* browser: token and user of the URL the page was opened with
  auth,          \* browser: the useAuth() state of each component using the hook
  journal        \* browser: screens shown and auth events, in order

github == <<refs, commits, trees, blobs, issues, pulls>>
locals == <<req, owner, repo, branchName, attempt, baseBranch, baseRef,
            issue, issueKey, ci, initialCommit, pr, result, error>>
session == <<headers, user, nextCalls>>
browser == <<localStorage, location, searchParams, auth, journal>>
aux == <<response, call, ret, session, octokit, browser>>
vars == <<github, now, pc, locals, calls, aux>>

\* no helper function is applied on its own
NoCall == [fn |-> "none"]

NoResult == [success |-> FALSE]
NoCi == [branchRef |-> 0, currentCommit |-> 0, blob |-> 0, tree |-> 0, commit |-> 0]

\* branches the repository may hold before the requests arrive: none, one or
\* both of main/master, and (in a repository that has main) the first k
\* candidate names of request 1
BaseRefs(hasMain, hasMaster) ==
  [n \in (IF hasMain THEN {Main} ELSE {}) \cup (IF hasMaster THEN {Master} ELSE {})
     |-> IF n = Main THEN MainSha ELSE MasterSha]

PreNames(r, k) ==
  {generateBranchName(r.type, r.title, t) : t \in 0..(k - 1)}

\* localStorage.getItem of a missing item, a missing URL parameter, user: null
Null == <<"<null>">>
\* null where a user object or its JSON text is expected
NoOne == [null |-> TRUE]

\* no page of the frontend is open
NoBrowser ==
  /\ localStorage = [github_token |-> Null, github_user |-> NoOne]
  /\ location = ""
  /\ searchParams = [token |-> Null, user |-> NoOne]
  /\ auth = <<>>
  /\ journal = <<>>

\* request 1 is a well-formed FEATURE request; request 2 is any request, so
\* it may or may not collide with request 1
Init ==
  /\ req \in [Procs -> IssueCreationOptions]
  /\ req[1] = [projectId |-> <<"a","b","/","c","d">>, type |-> "FEATURE",
               title |-> <<"A","b">>]
  /\ \E hasMain \in BOOLEAN, hasMaster \in BOOLEAN, k \in 0..MaxPre :
       /\ k = 0 \/ hasMain
       /\ refs = [n \in PreNames(req[1], k) |-> MainSha] @@ BaseRefs(hasMain, hasMaster)
  /\ commits = (MainSha :> [tree |-> 1, parents |-> <<>>])
                  @@ (MasterSha :> [tree |-> 2, parents |-> <<>>])
  /\ trees = (1 :> {<<"R">>}) @@ (2 :> {<<"R">>, <<"L">>})
  /\ blobs = [s \in {} |-> 0]
  /\ issues = <<>>
  /\ pulls = <<>>
  /\ now = 1
  /\ pc = [p \in Procs |-> "start"]
  /\ owner = [p \in Procs |-> <<>>]
  /\ repo = [p \in Procs |-> <<>>]
  /\ branchName = [p \in Procs |-> <<>>]
  /\ attempt = [p \in Procs |-> 0]
  /\ baseBranch = [p \in Procs |-> <<>>]
  /\ baseRef = [p \in Procs |-> 0]
  /\ issue = [p \in Procs |-> 0]
  /\ issueKey = [p \in Procs |-> <<>>]
  /\ ci = [p \in Procs |-> NoCi]
  /\ initialCommit = [p \in Procs |-> 0]
  /\ pr = [p \in Procs |-> 0]
  /\ result = [p \in Procs |-> NoResult]
  /\ error = [p \in Procs |-> ""]
  /\ calls = [p \in Procs |-> <<>>]
  /\ response = [p \in Procs |-> <<>>]
  /\ call = NoCall
  /\ ret = <<>>
  /\ headers = [p \in Procs |-> Bearer(Token(p))]
  /\ user = [p \in Procs |-> AuthenticatedUser(Token(p))]
  /\ nextCalls = [p \in Procs |-> 1]
  /\ octokit = [p \in Procs |-> Octokit(user[p].accessToken)]
  /\ NoBrowser

(* ------------------------------ helpers -------------------------------- *)
\* faulty variant: one client kept at module level and shared by all requests
Client_Shared(p) == octokit[1]

\* this.octokit of the manager (the const octokit of a route handler)
Client(p) == octokit[p]

\* a request sent through a client: it carries the client's token
LogAs(p, client, op, arg, status) ==
  calls' = [calls EXCEPT ![p] = Append(@, [op |-> op, arg |-> arg, status |-> status,
                                           auth |-> client.auth])]

Log(p, op, arg, status) == LogAs(p, Client(p), op, arg, status)

\* faulty variant: the cause's message is lost
WrapError_Unknown(msg) == "Failed to create issue: Unknown error"

\* `Failed to create issue: ${error.message}`
WrapError(msg) == "Failed to create issue: " \o msg

\* faulty variant: the URL of the default branch instead of the new branch
BranchUrl_OfMain(o, r, b) ==
  <<"https://github.com/">> \o o \o <<"/">> \o r \o <<"/tree/">> \o Main

\* `https://github.com/${owner}/${repo}/tree/${branchName}`
BranchUrl(o, r, b) == <<"https://github.com/">> \o o \o <<"/">> \o r \o <<"/tree/">> \o b

NotesWithPr == "Issue, branch, and pull request created successfully!"
NotesWithoutPr == "Issue and branch created successfully. Pull request creation was skipped."

\* faulty variant: the note follows the tracking commit, not the pull request
CreatedIssue_NotesByCommit(p, prNumber, commitSha) ==
  [ success |-> TRUE,
    issue |-> [number |-> issue[p], key |-> issueKey[p], branch |-> branchName[p]],
    branch |-> [name |-> branchName[p], url |-> BranchUrl(owner[p], repo[p], branchName[p])],
    pullRequest |-> prNumber,
    hasInitialCommit |-> (commitSha # 0),
    notes |-> IF commitSha # 0 THEN NotesWithPr ELSE NotesWithoutPr ]

\* the object literal returned by createIssueWithBranch
CreatedIssue(p, prNumber, commitSha) ==
  [ success |-> TRUE,
    issue |-> [number |-> issue[p], key |-> issueKey[p], branch |-> branchName[p]],
    branch |-> [name |-> branchName[p], url |-> BranchUrl(owner[p], repo[p], branchName[p])],
    pullRequest |-> prNumber,
    hasInitialCommit |-> (commitSha # 0),
    notes |-> IF prNumber # 0 THEN NotesWithPr ELSE NotesWithoutPr ]

\* the call goes on to its next await
Goto(p, label) ==
  /\ pc' = [pc EXCEPT ![p] = label]
  /\ UNCHANGED <<error, result, pr, initialCommit>>

\* an error reaches the catch of createIssueWithBranch, which rethrows it wrapped
Throw(p, msg) ==
  /\ pc' = [pc EXCEPT ![p] = "done"]
  /\ error' = [error EXCEPT ![p] = WrapError(msg)]
  /\ UNCHANGED <<result, pr, initialCommit>>

\* `return {success: true, ...}` with pr = prNumber (0 is null)
Return(p, prNumber) ==
  /\ pc' = [pc EXCEPT ![p] = "done"]
  /\ pr' = [pr EXCEPT ![p] = prNumber]
  /\ result' = [result EXCEPT ![p] = CreatedIssue(p, prNumber, initialCommit[p])]
  /\ UNCHANGED <<error, initialCommit>>

\* faulty variant: the pull request is attempted whatever createInitialCommit
\* answered (as the inline /issues/create route does)
AfterInitialCommit_Unconditional(p, commitSha) ==
  /\ initialCommit' = [initialCommit EXCEPT ![p] = commitSha]
  /\ pc' = [pc EXCEPT ![p] = "pullsCreate"]
  /\ UNCHANGED <<error, result, pr>>

\* createInitialCommit has answered commitSha (0 is null):
\* `let pr = null; if (initialCommit) { pulls.create } return {...}`
AfterInitialCommit(p, commitSha) ==
  /\ initialCommit' = [initialCommit EXCEPT ![p] = commitSha]
  /\ IF commitSha # 0
     THEN /\ pc' = [pc EXCEPT ![p] = "pullsCreate"]
          /\ UNCHANGED <<error, result, pr>>
     ELSE /\ pc' = [pc EXCEPT ![p] = "done"]
          /\ result' = [result EXCEPT ![p] = CreatedIssue(p, 0, 0)]
          /\ UNCHANGED <<error, pr>>

\* faulty variant: createInitialCommit without its try/catch
CiFailed_Throws(p) == Throw(p, StatusMessage(500))

\* createInitialCommit's catch: log and `return null`
CiFailed(p) == AfterInitialCommit(p, 0)

\* faulty variant: pulls.create without its try/catch
PrFailed_Throws(p) == Throw(p, StatusMessage(500))

\* the catch around pulls.create: log, pr stays null
PrFailed(p) == Return(p, 0)

\* faulty variant: the 404 for master is swallowed and the workflow goes on
MasterMissing_Continues(p) == Goto(p, "probe")

\* both lookups answered 404: `throw new Error('Repository has no main branch...')`
MasterMissing(p) == Throw(p, NoMainBranchMsg)

\* faulty variant: the fallback forgets `baseBranch = 'master'`
ResolveBase_KeepsName(p, name) ==
  /\ baseRef' = [baseRef EXCEPT ![p] = refs[name]]
  /\ UNCHANGED baseBranch

\* `baseRef = response.data` and, for the fallback, `baseBranch = 'master'`
ResolveBase(p, name) ==
  /\ baseRef' = [baseRef EXCEPT ![p] = refs[name]]
  /\ baseBranch' = [baseBranch EXCEPT ![p] = name]

\* faulty variant: off by one, `attempt > maxAttempts`
LoopExhausted_OffByOne(a) == a > maxAttempts

\* `attempt < maxAttempts` is false / `attempt >= maxAttempts`
LoopExhausted(a) == a >= maxAttempts

\* faulty variant: the catch deletes the branch the request reserved
IssueCreateFailed_RollsBack(p, msg) ==
  /\ Throw(p, msg)
  /\ refs' = [n \in DOMAIN refs \ {branchName[p]} |-> refs[n]]

\* issues.create rejected: the error goes straight to the catch of
\* createIssueWithBranch, which rethrows and cleans nothing up
IssueCreateFailed(p, msg) ==
  /\ Throw(p, msg)
  /\ UNCHANGED refs

\* number GitHub gives the next issue or pull request of the repository
NextNumber == Len(issues) + Len(pulls) + 1

\* faulty variant: the key is put in front without its brackets
RenamedTitle_NoBrackets(key, title) == key \o <<" ">> \o title

\* `[${issueKey}] ${title}`
RenamedTitle(key, title) == <<"[">> \o key \o <<"]", " ">> \o title

\* issueBody: the template's fixed text and request fields (one token), and
\* the branch line
IssueBody(p) == <<"**Description:** ...", "**Branch:** ">> \o branchName[p]

\* `Closes #${issue.number}\n\n${issueBody}`
ClosesBody(p) == <<"Closes #">> \o ToDigits(issue[p]) \o <<"\n\n">> \o IssueBody(p)

\* faulty variant: the base is 'main' whatever base was resolved (as in the
\* inline /issues/create route)
PullParams_BaseMain(p) ==
  [ title |-> RenamedTitle(issueKey[p], req[p].title),
    head |-> branchName[p], base |-> Main,
    body |-> ClosesBody(p), draft |-> TRUE ]

\* the parameters of pulls.create
PullParams(p) ==
  [ title |-> RenamedTitle(issueKey[p], req[p].title),
    head |-> branchName[p], base |-> baseBranch[p],
    body |-> ClosesBody(p), draft |-> TRUE ]

\* faulty variant: the tracking file takes the place of a file of the base tree
TrackingFile_Readme(key) == <<"R">>

\* `ISSUE_${issueKey}.md`
TrackingFile(key) == <<"ISSUE_">> \o key \o <<".md">>

\* faulty variant: the failure of issues.update is swallowed
IssueUpdateFailed_Continues(p, msg) == Goto(p, "ciGetRef")

\* issues.update rejects inside the try of createIssueWithBranch
IssueUpdateFailed(p, msg) == Throw(p, msg)

(* ------------------------------ actions -------------------------------- *)
\* createIssueWithBranch up to its first await: destructuring, split, and
\* the synchronous prologue of createUniqueBranch
Start(p) ==
  /\ pc[p] = "start"
  /\ UNCHANGED aux
  /\ LET parts == Split(req[p].projectId) IN
       /\ owner' = [owner EXCEPT ![p] = parts[1]]
       /\ repo' = [repo EXCEPT ![p] = IF Len(parts) >= 2 THEN parts[2] ELSE Undefined]
  /\ branchName' = [branchName EXCEPT ![p] = generateBranchName(req[p].type, req[p].title, 0)]
  /\ attempt' = [attempt EXCEPT ![p] = 0]
  /\ baseBranch' = [baseBranch EXCEPT ![p] = Main]
  /\ Goto(p, "getBaseRef")
  /\ UNCHANGED <<github, now, calls, req, baseRef, issue, issueKey, ci>>

\* git.getRef(heads/main)
GetBaseRef(p) ==
  /\ pc[p] = "getBaseRef"
  /\ UNCHANGED aux
  /\ \/ /\ Log(p, "getRef", baseBranch[p], 500)
        /\ Throw(p, StatusMessage(500))
        /\ UNCHANGED <<baseRef, baseBranch>>
     \/ /\ RepoExists(owner[p], repo[p]) /\ baseBranch[p] \in DOMAIN refs
        /\ Log(p, "getRef", baseBranch[p], 200)
        /\ ResolveBase(p, baseBranch[p])
        /\ Goto(p, "probe")
     \/ /\ ~(RepoExists(owner[p], repo[p]) /\ baseBranch[p] \in DOMAIN refs)
        /\ Log(p, "getRef", baseBranch[p], 404)
        /\ Goto(p, "getMasterRef")
        /\ UNCHANGED <<baseRef, baseBranch>>
  /\ UNCHANGED <<github, now, req, owner, repo, branchName, attempt, issue, issueKey, ci>>

\* git.getRef(heads/master), the fallback after a 404 for main
GetMasterRef(p) ==
  /\ pc[p] = "getMasterRef"
  /\ UNCHANGED aux
  /\ \/ /\ Log(p, "getRef", Master, 500)
        /\ Throw(p, StatusMessage(500))
        /\ UNCHANGED <<baseRef, baseBranch>>
     \/ /\ RepoExists(owner[p], repo[p]) /\ Master \in DOMAIN refs
        /\ Log(p, "getRef", Master, 200)
        /\ ResolveBase(p, Master)
        /\ Goto(p, "probe")
     \/ /\ ~(RepoExists(owner[p], repo[p]) /\ Master \in DOMAIN refs)
        /\ Log(p, "getRef", Master, 404)
        /\ MasterMissing(p)
        /\ UNCHANGED <<baseRef, baseBranch>>
  /\ UNCHANGED <<github, now, req, owner, repo, branchName, attempt, issue, issueKey, ci>>

\* one iteration of the while loop: git.getRef(heads/<branchName>); on a
\* collision Date.now() is read: the clock has advanced by any amount since
\* it was last read
ProbeBranch(p) ==
  /\ pc[p] = "probe"
  /\ UNCHANGED aux
  /\ ~LoopExhausted(attempt[p])
  /\ \/ /\ Log(p, "getRef", branchName[p], 500)
        /\ Throw(p, StatusMessage(500))
        /\ UNCHANGED <<branchName, attempt, now>>
     \/ /\ branchName[p] \in DOMAIN refs
        /\ Log(p, "getRef", branchName[p], 200)
        /\ \E t \in now..MaxClock :
             /\ now' = t
             /\ LET timestamp == t + attempt[p] IN
                  branchName' = [branchName EXCEPT ![p] =
                                   generateBranchName(req[p].type, req[p].title, timestamp)]
        /\ attempt' = [attempt EXCEPT ![p] = @ + 1]
        /\ IF LoopExhausted(attempt[p] + 1)
           THEN Throw(p, ExhaustedMsg)
           ELSE Goto(p, "probe")
     \/ /\ branchName[p] \notin DOMAIN refs
        /\ Log(p, "getRef", branchName[p], 404)
        /\ Goto(p, "createRef")
        /\ UNCHANGED <<branchName, attempt, now>>
  /\ UNCHANGED <<github, req, owner, repo, baseBranch, baseRef, issue, issueKey, ci>>

\* git.createRef(refs/heads/<branchName>, baseRef.object.sha)
CreateRef(p) ==
  /\ pc[p] = "createRef"
  /\ UNCHANGED aux
  /\ \/ /\ Log(p, "createRef", branchName[p], 500)
        /\ Throw(p, StatusMessage(500))
        /\ UNCHANGED refs
     \/ /\ branchName[p] \in DOMAIN refs
        /\ Log(p, "createRef", branchName[p], 422)
        /\ Throw(p, StatusMessage(422))
        /\ UNCHANGED refs
     \/ /\ branchName[p] \notin DOMAIN refs
        /\ Log(p, "createRef", branchName[p], 201)
        /\ refs' = (branchName[p] :> baseRef[p]) @@ refs
        /\ Goto(p, "issuesCreate")
  /\ UNCHANGED <<commits, trees, blobs, issues, pulls, now, req, owner, repo,
                 branchName, attempt, baseBranch, baseRef, issue, issueKey, ci>>

\* issues.create, then generateIssueKey on the number it returned
IssuesCreate(p) ==
  /\ pc[p] = "issuesCreate"
  /\ UNCHANGED aux
  /\ \/ /\ Log(p, "issues.create", <<>>, 500)
        /\ IssueCreateFailed(p, StatusMessage(500))
        /\ UNCHANGED <<issues, issue, issueKey>>
     \/ /\ Log(p, "issues.create", <<>>, 201)
        /\ issues' = Append(issues, [number |-> NextNumber, title |-> req[p].title,
                                     body |-> IssueBody(p), updates |-> 0])
        /\ issue' = [issue EXCEPT ![p] = NextNumber]
        /\ issueKey' = [issueKey EXCEPT ![p] = generateIssueKey(req[p].projectId, NextNumber)]
        /\ Goto(p, "issuesUpdate")
        /\ UNCHANGED refs
  /\ UNCHANGED <<commits, trees, blobs, pulls, now, req, owner, repo,
                 branchName, attempt, baseBranch, baseRef, ci>>

\* issues.update(issue_number, title: `[${issueKey}] ${title}`)
IssuesUpdate(p) ==
  /\ pc[p] = "issuesUpdate"
  /\ UNCHANGED aux
  /\ \/ /\ Log(p, "issues.update", <<>>, 500)
        /\ IssueUpdateFailed(p, StatusMessage(500))
        /\ UNCHANGED issues
     \/ /\ Log(p, "issues.update", <<>>, 200)
        /\ issues' = [i \in DOMAIN issues |->
                        IF issues[i].number = issue[p]
                        THEN [issues[i] EXCEPT !.title = RenamedTitle(issueKey[p], req[p].title),
                                               !.updates = @ + 1]
                        ELSE issues[i]]
        /\ Goto(p, "ciGetRef")
  /\ UNCHANGED <<refs, commits, trees, blobs, pulls, now, req, owner, repo,
                 branchName, attempt, baseBranch, baseRef, issue, issueKey, ci>>

\* createInitialCommit: git.getRef(heads/<branchName>)
CiGetRef(p) ==
  /\ pc[p] = "ciGetRef"
  /\ UNCHANGED aux
  /\ \/ /\ Log(p, "getRef", branchName[p], 500)
        /\ CiFailed(p)
        /\ UNCHANGED ci
     \/ /\ branchName[p] \in DOMAIN refs
        /\ Log(p, "getRef", branchName[p], 200)
        /\ ci' = [ci EXCEPT ![p].branchRef = refs[branchName[p]]]
        /\ Goto(p, "ciGetCommit")
  /\ UNCHANGED <<github, now, req, owner, repo, branchName, attempt, baseBranch,
                 baseRef, issue, issueKey>>

\* createInitialCommit: git.getCommit(branchRef.object.sha)
CiGetCommit(p) ==
  /\ pc[p] = "ciGetCommit"
  /\ UNCHANGED aux
  /\ \/ /\ Log(p, "getCommit", <<>>, 500)
        /\ CiFailed(p)
        /\ UNCHANGED ci
     \/ /\ ci[p].branchRef \in DOMAIN commits
        /\ Log(p, "getCommit", <<>>, 200)
        /\ ci' = [ci EXCEPT ![p].currentCommit = ci[p].branchRef]
        /\ Goto(p, "ciCreateBlob")
  /\ UNCHANGED <<github, now, req, owner, repo, branchName, attempt, baseBranch,
                 baseRef, issue, issueKey>>

\* createInitialCommit: git.createBlob(tracking file content)
CiCreateBlob(p) ==
  /\ pc[p] = "ciCreateBlob"
  /\ UNCHANGED aux
  /\ \/ /\ Log(p, "createBlob", <<>>, 500)
        /\ CiFailed(p)
        /\ UNCHANGED <<ci, blobs>>
     \/ /\ Log(p, "createBlob", <<>>, 201)
        /\ blobs' = (ShaOf(p) :> [issueKey |-> issueKey[p], title |-> req[p].title,
                                   branch |-> branchName[p]]) @@ blobs
        /\ ci' = [ci EXCEPT ![p].blob = ShaOf(p)]
        /\ Goto(p, "ciCreateTree")
  /\ UNCHANGED <<refs, commits, trees, issues, pulls, now, req, owner, repo,
                 branchName, attempt, baseBranch, baseRef, issue, issueKey>>

\* createInitialCommit: git.createTree(base_tree: currentCommit.tree.sha, one blob entry)
CiCreateTree(p) ==
  /\ pc[p] = "ciCreateTree"
  /\ UNCHANGED aux
  /\ \/ /\ Log(p, "createTree", <<>>, 500)
        /\ CiFailed(p)
        /\ UNCHANGED <<ci, trees>>
     \/ /\ Log(p, "createTree", <<>>, 201)
        /\ trees' = (ShaOf(p) :> (trees[commits[ci[p].currentCommit].tree]
                                    \cup {TrackingFile(issueKey[p])})) @@ trees
        /\ ci' = [ci EXCEPT ![p].tree = ShaOf(p)]
        /\ Goto(p, "ciCreateCommit")
  /\ UNCHANGED <<refs, commits, blobs, issues, pulls, now, req, owner, repo,
                 branchName, attempt, baseBranch, baseRef, issue, issueKey>>

\* createInitialCommit: git.createCommit(tree, parents: [currentCommit.sha])
CiCreateCommit(p) ==
  /\ pc[p] = "ciCreateCommit"
  /\ UNCHANGED aux
  /\ \/ /\ Log(p, "createCommit", <<>>, 500)
        /\ CiFailed(p)
        /\ UNCHANGED <<ci, commits>>
     \/ /\ Log(p, "createCommit", <<>>, 201)
        /\ commits' = (ShaOf(p) :> [tree |-> ci[p].tree,
                                     parents |-> <<ci[p].currentCommit>>]) @@ commits
        /\ ci' = [ci EXCEPT ![p].commit = ShaOf(p)]
        /\ Goto(p, "ciUpdateRef")
  /\ UNCHANGED <<refs, trees, blobs, issues, pulls, now, req, owner, repo,
                 branchName, attempt, baseBranch, baseRef, issue, issueKey>>

\* createInitialCommit: git.updateRef(heads/<branchName>, commit.sha), not
\* forced: GitHub accepts it only as a fast-forward; then `return commit`
CiUpdateRef(p) ==
  /\ pc[p] = "ciUpdateRef"
  /\ UNCHANGED aux
  /\ \/ /\ Log(p, "updateRef", branchName[p], 500)
        /\ CiFailed(p)
        /\ UNCHANGED refs
     \/ /\ branchName[p] \in DOMAIN refs
        /\ IF refs[branchName[p]] \in Range(commits[ci[p].commit].parents)
           THEN /\ Log(p, "updateRef", branchName[p], 200)
                /\ refs' = [refs EXCEPT ![branchName[p]] = ci[p].commit]
                /\ AfterInitialCommit(p, ci[p].commit)
           ELSE /\ Log(p, "updateRef", branchName[p], 422)
                /\ CiFailed(p)
                /\ UNCHANGED refs
  /\ UNCHANGED <<commits, trees, blobs, issues, pulls, now, req, owner, repo,
                 branchName, attempt, baseBranch, baseRef, issue, issueKey, ci>>

\* pulls.create(head: branchName, base: baseBranch, draft: true); its failure
\* is caught and logged
PullsCreate(p) ==
  /\ pc[p] = "pullsCreate"
  /\ UNCHANGED aux
  /\ \/ /\ Log(p, "pulls.create", baseBranch[p], 500)
        /\ PrFailed(p)
        /\ UNCHANGED pulls
     \/ /\ Log(p, "pulls.create", baseBranch[p], 201)
        /\ pulls' = Append(pulls, [number |-> NextNumber] @@ PullParams(p))
        /\ Return(p, NextNumber)
  /\ UNCHANGED <<refs, commits, trees, blobs, issues, now, req, owner, repo,
                 branchName, attempt, baseBranch, baseRef, issue, issueKey, ci>>

Next ==
  \/ \E p \in Procs : Start(p)
  \/ \E p \in Procs : GetBaseRef(p)
  \/ \E p \in Procs : GetMasterRef(p)
  \/ \E p \in Procs : ProbeBranch(p)
  \/ \E p \in Procs : CreateRef(p)
  \/ \E p \in Procs : IssuesCreate(p)
  \/ \E p \in Procs : IssuesUpdate(p)
  \/ \E p \in Procs : CiGetRef(p)
  \/ \E p \in Procs : CiGetCommit(p)
  \/ \E p \in Procs : CiCreateBlob(p)
  \/ \E p \in Procs : CiCreateTree(p)
  \/ \E p \in Procs : CiCreateCommit(p)
  \/ \E p \in Procs : CiUpdateRef(p)
  \/ \E p \in Procs : PullsCreate(p)

Spec == Init /\ [][Next]_vars

(* ------------------------- vocabulary of the claims -------------------- *)
Done(p) == pc[p] = "done"
Returned(p) == Done(p) /\ result[p].success
Threw(p) == Done(p) /\ error[p] # ""

Failed(c) == c.status >= 400
CallsOf(p, op) == {i \in DOMAIN calls[p] : calls[p][i].op = op}
Count(p, op) == Cardinality(CallsOf(p, op))

\* the remote calls of createUniqueBranch's loop: ref lookups other than
\* main/master made before the branch is created
Probes(p) ==
  {i \in CallsOf(p, "getRef") :
     /\ calls[p][i].arg \notin {Main, Master}
     /\ \A j \in 1..i : calls[p][j].op \notin {"createRef", "issues.update"}}
FoundExisting(p) == {calls[p][i].arg : i \in {j \in Probes(p) : calls[p][j].status = 200}}

\* the remote calls of createInitialCommit: the calls after issues.update
\* other than pulls.create
CiCalls(p) ==
  {i \in DOMAIN calls[p] :
     /\ calls[p][i].op # "pulls.create"
     /\ \E j \in 1..(i - 1) : calls[p][j].op = "issues.update"}

IssueExists(n) == \E i \in DOMAIN issues : issues[i].number = n

\* s occurs in u as a contiguous piece
Contains(u, s) ==
  \E i \in 0..(Len(u) - Len(s)) : \A j \in 1..Len(s) : u[i + j] = s[j]

(* --------------------------------- C1 ---------------------------------- *)
\* C1: a pulls.create call is issued if and only if the tracking commit
\* succeeded: never more than one, none while or after createInitialCommit
\* answered null, and exactly one once the call has ended with a commit.
C1_PrCallIffCommit ==
  \A p \in Procs :
    /\ Count(p, "pulls.create") <= 1
    /\ Count(p, "pulls.create") = 1 => initialCommit[p] # 0
    /\ Done(p) /\ initialCommit[p] # 0 => Count(p, "pulls.create") = 1
    /\ Returned(p) => (result[p].hasInitialCommit <=> Count(p, "pulls.create") = 1)

\* one request ended with a commit and its pulls.create call, the other ended
\* without a commit and without the call
C1_Witness ==
  \E p, q \in Procs :
    /\ Returned(p) /\ initialCommit[p] # 0 /\ Count(p, "pulls.create") = 1
    /\ Returned(q) /\ initialCommit[q] = 0 /\ Count(q, "pulls.create") = 0

(* --------------------------------- C2 ---------------------------------- *)
\* C2: when a remote call of the tracking-commit step fails, the call still
\* returns: success = true, hasInitialCommit = false, no pull request, no
\* error, and the issue and the branch it created exist in the repository.
C2_CommitFailureDegrades ==
  \A p \in Procs :
    (\E i \in CiCalls(p) : Failed(calls[p][i])) =>
      /\ Returned(p) /\ error[p] = ""
      /\ result[p].success /\ ~result[p].hasInitialCommit
      /\ result[p].pullRequest = 0
      /\ Count(p, "pulls.create") = 0
      /\ IssueExists(result[p].issue.number)
      /\ result[p].branch.name \in DOMAIN refs

C2_Witness ==
  \E p \in Procs :
    /\ \E i \in CiCalls(p) : calls[p][i].op = "createTree" /\ Failed(calls[p][i])
    /\ Returned(p) /\ ~result[p].hasInitialCommit

(* --------------------------------- C3 ---------------------------------- *)
\* C3: when the tracking commit succeeded and pulls.create fails, the call
\* returns success = true, hasInitialCommit = true and a null pull request.
C3_PrFailureDegrades ==
  \A p \in Procs :
    (\E i \in CallsOf(p, "pulls.create") : Failed(calls[p][i])) =>
      /\ Returned(p) /\ error[p] = ""
      /\ result[p].success /\ result[p].hasInitialCommit
      /\ result[p].pullRequest = 0

C3_Witness ==
  \E p \in Procs :
    /\ \E i \in CallsOf(p, "pulls.create") : Failed(calls[p][i])
    /\ Returned(p) /\ initialCommit[p] # 0

(* --------------------------------- C4 ---------------------------------- *)
\* a failure of steps 1-4: a server error of a call up to issues.create, a
\* 404 for master after the 404 for main, or a createRef that is refused
FatalCall(p, i) ==
  /\ \A j \in 1..i : calls[p][j].op \in {"getRef", "createRef", "issues.create"}
  /\ \/ calls[p][i].status = 500
     \/ calls[p][i].op = "createRef" /\ Failed(calls[p][i])
     \/ calls[p][i].op = "getRef" /\ calls[p][i].arg = Master /\ calls[p][i].status = 404

CauseMessage(c) ==
  IF c.op = "getRef" /\ c.arg = Master /\ c.status = 404
  THEN NoMainBranchMsg
  ELSE StatusMessage(c.status)

\* C4: when base-branch resolution, a probe, branch creation or issue
\* creation fails, the call rejects with the one error 'Failed to create
\* issue: <cause message>', returns no result, and the failing call is the
\* last remote call it issued.
C4_FatalFailureWrapped ==
  \A p \in Procs : \A i \in DOMAIN calls[p] :
    FatalCall(p, i) =>
      /\ Done(p) /\ ~result[p].success
      /\ error[p] = "Failed to create issue: " \o CauseMessage(calls[p][i])
      /\ i = Len(calls[p])

\* issue creation failed after the branch was created
C4_Witness ==
  \E p \in Procs :
    /\ Len(calls[p]) > 0
    /\ FatalCall(p, Len(calls[p]))
    /\ calls[p][Len(calls[p])].op = "issues.create"
    /\ Threw(p)

(* --------------------------------- C5 ---------------------------------- *)
\* C5: in a repository with neither main nor master a call ends with the
\* error 'Repository has no main branch ...' (wrapped), having issued no
\* createRef and no issues.create call: no branch and no issue is created.
C5_NoBaseBranchFailsEarly ==
  (Main \notin DOMAIN refs /\ Master \notin DOMAIN refs) =>
    /\ issues = <<>>
    /\ \A p \in Procs :
         /\ Count(p, "createRef") = 0 /\ Count(p, "issues.create") = 0
         /\ pc[p] \in {"start", "getBaseRef", "getMasterRef", "done"}
         /\ Done(p) => ~result[p].success
         /\ (Done(p) /\ \A i \in DOMAIN calls[p] : calls[p][i].status = 404) =>
               /\ error[p] = "Failed to create issue: " \o NoMainBranchMsg
               /\ Len(calls[p]) = 2

C5_Witness ==
  \E p \in Procs :
    /\ RepoExists(owner[p], repo[p])
    /\ Main \notin DOMAIN refs /\ Master \notin DOMAIN refs
    /\ Done(p) /\ error[p] = "Failed to create issue: " \o NoMainBranchMsg

(* --------------------------------- C6 ---------------------------------- *)
\* C6: in the repository, when main exists the base is main and master is
\* never looked up; when main is absent and master exists the base is
\* master. The branch a call creates points at the commit of the resolved
\* base (until the tracking commit is put on top of it), and every
\* pulls.create call targets the resolved base.
C6_BaseBranchResolution ==
  \A p \in Procs :
    RepoExists(owner[p], repo[p]) =>
      /\ Main \in DOMAIN refs =>
           \A i \in CallsOf(p, "getRef") : calls[p][i].arg # Master
      /\ baseRef[p] # 0 =>
           /\ baseBranch[p] = IF Main \in DOMAIN refs THEN Main ELSE Master
           /\ baseBranch[p] \in DOMAIN refs
           /\ baseRef[p] = refs[baseBranch[p]]
      /\ \A i \in CallsOf(p, "createRef") :
           calls[p][i].status = 201 =>
             LET n == calls[p][i].arg IN
               /\ n \in DOMAIN refs
               /\ \/ refs[n] = refs[baseBranch[p]]
                  \/ commits[refs[n]].parents = <<refs[baseBranch[p]]>>
      /\ \A i \in CallsOf(p, "pulls.create") : calls[p][i].arg = baseBranch[p]
      /\ pr[p] # 0 =>
           \E k \in DOMAIN pulls :
             /\ pulls[k].number = pr[p]
             /\ pulls[k].head = branchName[p]
             /\ pulls[k].base = baseBranch[p]

\* a pull request was opened against master in a repository without main
C6_Witness ==
  \E p \in Procs :
    /\ Main \notin DOMAIN refs
    /\ pr[p] # 0 /\ baseBranch[p] = Master
    /\ commits[refs[branchName[p]]].parents = <<MasterSha>>

(* --------------------------------- C7 ---------------------------------- *)
\* C7 as stated: a result produced from base master shows master in its
\* branch URL.
C7_UrlReflectsMaster ==
  \A p \in Procs :
    Returned(p) /\ baseBranch[p] = Master => Contains(result[p].branch.url, Master)

\* C7 as amended: the branch URL of a result is
\* https://github.com/<owner>/<repo>/tree/<new branch name>: it names the
\* created branch and is built from nothing else, so it is the same whether
\* the base resolved to main or to master.
C7_UrlNamesCreatedBranch ==
  \A p \in Procs :
    Returned(p) =>
      /\ result[p].branch.url =
           <<"https://github.com/">> \o owner[p] \o <<"/">> \o repo[p]
             \o <<"/tree/">> \o result[p].branch.name
      /\ result[p].branch.name \in DOMAIN refs
      /\ result[p].branch.name \notin {Main, Master}

C7_Witness ==
  \E p \in Procs :
    /\ Returned(p) /\ baseBranch[p] = Master /\ Main \notin DOMAIN refs
    /\ ~Contains(result[p].branch.url, Master)

(* --------------------------------- C8 ---------------------------------- *)
BaseName(p) == generateBranchName(req[p].type, req[p].title, 0)

\* n is the base name followed by '_' and a decimal timestamp
TimestampSuffixed(n, base) ==
  \E t \in 1..(MaxClock + maxAttempts) : n = base \o <<"_">> \o ToDigits(t)

\* C8: the loop makes at most 5 probes. A branch is created only after fewer
\* than 5 collisions: under the base name after none, under a
\* timestamp-suffixed name that none of the probes found to exist after 1 to
\* 4. A probe that finds the name free ends the loop and createRef is the
\* next call. After 5 collisions, and only then, the call fails with
\* 'Unable to generate unique branch name after multiple attempts', with 5
\* probes and no createRef or issues.create call.
C8_UniqueBranchReservation ==
  \A p \in Procs :
    LET probes == Probes(p)
        found == {calls[p][i].arg : i \in {j \in probes : calls[p][j].status = 200}}
        created == CallsOf(p, "createRef")
    IN
    /\ attempt[p] <= maxAttempts
    /\ Cardinality(probes) <= maxAttempts
    /\ Cardinality(found) = attempt[p]
    /\ \A i \in created :
         LET n == calls[p][i].arg
             base == BaseName(p)
         IN
           /\ attempt[p] < maxAttempts
           /\ attempt[p] = 0 => n = base
           /\ attempt[p] >= 1 => TimestampSuffixed(n, base) /\ n \notin found
           /\ calls[p][i].status = 201 => n \in DOMAIN refs
    /\ (\E i \in probes : calls[p][i].status = 404) =>
         /\ attempt[p] < maxAttempts
         /\ pc[p] = "createRef" \/ Cardinality(created) = 1
    /\ attempt[p] = maxAttempts <=> error[p] = "Failed to create issue: " \o ExhaustedMsg
    /\ attempt[p] = maxAttempts =>
         /\ Done(p) /\ ~result[p].success
         /\ Cardinality(probes) = maxAttempts
         /\ created = {} /\ Count(p, "issues.create") = 0
         /\ issue[p] = 0

\* one request created its branch after 1 to 4 collisions, the other gave up
\* after 5
C8_Witness ==
  \E p, q \in Procs :
    /\ attempt[p] \in 1..(maxAttempts - 1)
    /\ \E i \in CallsOf(p, "createRef") : calls[p][i].status = 201
    /\ attempt[q] = maxAttempts /\ Threw(q)

(* --------------------------------- C9 ---------------------------------- *)
\* C9: two requests with the same type and title run against the repository
\* whose base name is free; no remote call is answered by a server error.
\* Then both return a result and the repository holds two different
\* branches, one per request.
C9_ConcurrentCollisionResolved ==
  ( /\ \A p \in Procs : Done(p) /\ RepoExists(owner[p], repo[p])
    /\ req[1].type = req[2].type /\ req[1].title = req[2].title
    /\ \A p \in Procs : \A i \in DOMAIN calls[p] : calls[p][i].status # 500
    /\ \E p \in Procs : \E i \in Probes(p) :
         calls[p][i].arg = BaseName(p) /\ calls[p][i].status = 404 )
  =>
  ( /\ \A p \in Procs : Returned(p)
    /\ result[1].branch.name # result[2].branch.name
    /\ \A p \in Procs : result[p].branch.name \in DOMAIN refs )

(* --------------------------------- C10 --------------------------------- *)
WellFormedProjectId(id) ==
  LET parts == Split(id) IN
    Len(parts) = 2 /\ parts[1] # <<>> /\ parts[2] # <<>>

\* C10: a call whose project identifier does not split into exactly two
\* non-empty segments issues no remote call.
C10_MalformedProjectFailsFast ==
  \A p \in Procs :
    ~WellFormedProjectId(req[p].projectId) => calls[p] = <<>>

(* --------------------------------- C11 --------------------------------- *)
Numbers(s) == {s[i].number : i \in DOMAIN s}

\* the branch of every createRef call of p that GitHub accepted
Reserved(p) ==
  {calls[p][i].arg : i \in {j \in CallsOf(p, "createRef") : calls[p][j].status = 201}}

\* C11: no step of any request, failed ones included, deletes anything: the
\* sets of branches, issues and pull requests of the repository never
\* shrink, and after every step a branch that a request reserved still
\* exists, also when the request has ended with an error.
C11_NothingDeleted ==
  [][ /\ DOMAIN refs \subseteq DOMAIN refs'
      /\ Numbers(issues) \subseteq Numbers(issues')
      /\ Numbers(pulls) \subseteq Numbers(pulls')
      /\ \A p \in Procs : Reserved(p)' \subseteq DOMAIN refs' ]_vars

\* issue creation failed after the branch was reserved, and the branch is
\* still there with no issue
C11_Witness ==
  \E p \in Procs :
    /\ Threw(p) /\ issue[p] = 0
    /\ \E i \in CallsOf(p, "issues.create") : Failed(calls[p][i])
    /\ Reserved(p) # {} /\ Reserved(p) \subseteq DOMAIN refs
    /\ issues = <<>>

(* ------------------ the inline route POST /issues/create --------------- *)
(* routes/issues.ts, mounted by the application at /api/issues behind the   *)
(* authentication middleware: its own copy of the workflow. It uses the     *)
(* variables of the orchestrator that have the same names in its code.      *)

\* a property that the request body does not have
Missing == "<undefined>"

\* generateBranchName(type, title) of the route: no fallback for an empty
\* slug or an unknown type (`${prefix[type]}` of a missing key is 'undefined')
Route_generateBranchName(type, title) ==
  LET sanitizedTitle == substring(CollapseSpaces(StripNonAlnum(toLowerCase(title))), 30)
      prefix == IF prefixMap(type) # <<>> THEN prefixMap(type) ELSE <<"undefined">>
  IN prefix \o <<"/">> \o sanitizedTitle

\* request bodies (CreateIssueRequest, unvalidated): a well-formed one, one
\* without projectId, one without type
RouteBodies ==
  { [projectId |-> <<"a","b","/","c","d">>, type |-> "FEATURE", title |-> <<"A","b">>],
    [projectId |-> Undefined,               type |-> "FEATURE", title |-> <<"A","b">>],
    [projectId |-> <<"a","b","/","c","d">>, type |-> Missing,   title |-> <<"A","b">>] }

TypeErrorMsg(prop) == "Cannot read properties of undefined (reading '" \o prop \o "')"

\* the page Express's default error handler sends
DefaultErrorPage == [html |-> "Internal Server Error"]

\* Authorization headers of the requests: none, the scheme without a token,
\* a token GitHub does not know, the token of a user
AuthorizationHeaders ==
  {Undefined, Bearer(<<>>), Bearer(BadToken)} \cup {Bearer(t) : t \in ValidTokens}

RouteInit ==
  /\ req \in [Procs -> RouteBodies]
  /\ \E hasMain \in BOOLEAN, taken \in BOOLEAN :
       refs = [n \in (IF taken THEN {Route_generateBranchName("FEATURE", <<"A","b">>)} ELSE {})
                 |-> MainSha] @@ BaseRefs(hasMain, TRUE)
  /\ commits = (MainSha :> [tree |-> 1, parents |-> <<>>])
                  @@ (MasterSha :> [tree |-> 2, parents |-> <<>>])
  /\ trees = (1 :> {<<"R">>}) @@ (2 :> {<<"R">>, <<"L">>})
  /\ blobs = [s \in {} |-> 0]
  /\ issues = <<>>
  /\ pulls = <<>>
  /\ now = 1
  /\ pc = [p \in Procs |-> "auth"]
  /\ owner = [p \in Procs |-> <<>>]
  /\ repo = [p \in Procs |-> <<>>]
  /\ branchName = [p \in Procs |-> <<>>]
  /\ attempt = [p \in Procs |-> 0]
  /\ baseBranch = [p \in Procs |-> <<>>]
  /\ baseRef = [p \in Procs |-> 0]
  /\ issue = [p \in Procs |-> 0]
  /\ issueKey = [p \in Procs |-> <<>>]
  /\ ci = [p \in Procs |-> NoCi]
  /\ initialCommit = [p \in Procs |-> 0]
  /\ pr = [p \in Procs |-> 0]
  /\ result = [p \in Procs |-> NoResult]
  /\ error = [p \in Procs |-> ""]
  /\ calls = [p \in Procs |-> <<>>]
  /\ response = [p \in Procs |-> <<>>]
  /\ call = NoCall
  /\ ret = <<>>
  /\ headers \in [Procs -> AuthorizationHeaders]
  /\ \A p \in Procs : headers[p] \in {Undefined, Bearer(<<>>), Bearer(BadToken), Bearer(Token(p))}
  /\ user = [p \in Procs |-> NoUser]
  /\ nextCalls = [p \in Procs |-> 0]
  /\ octokit = [p \in Procs |-> NoClient]
  /\ NoBrowser

\* what the handler of the route never touches
routeIdle == <<commits, trees, blobs, now, req, attempt, baseBranch, ci,
               initialCommit, result, error, call, ret, session, browser>>

\* res.status(status).json(body), the last statement of the handler
Respond(p, status, body) ==
  /\ response' = [response EXCEPT ![p] = Append(@, [status |-> status, body |-> body])]
  /\ pc' = [pc EXCEPT ![p] = "done"]

\* the catch of the handler
RouteCatch(p, msg) ==
  Respond(p, 500, [error |-> "Failed to create issue", details |-> msg])

\* an exception outside the try rejects the promise of the async handler,
\* which nothing awaits: Express 4 leaves the request unanswered, Express 5
\* hands the error to its default error handler
RouteReject(p) ==
  \/ /\ pc' = [pc EXCEPT ![p] = "unanswered"]
     /\ UNCHANGED response
  \/ Respond(p, 500, DefaultErrorPage)

\* faulty variant: the 401 is sent and the request is passed on all the same
Unauthorized_FailsOpen(p, msg) ==
  /\ response' = [response EXCEPT ![p] = Append(@, [status |-> 401, body |-> [error |-> msg]])]
  /\ pc' = [pc EXCEPT ![p] = "start"]
  /\ nextCalls' = [nextCalls EXCEPT ![p] = @ + 1]
  /\ UNCHANGED user

\* res.status(401).json({error: msg}): the middleware ends the request
Unauthorized(p, msg) ==
  /\ response' = [response EXCEPT ![p] = Append(@, [status |-> 401, body |-> [error |-> msg]])]
  /\ pc' = [pc EXCEPT ![p] = "unauthorized"]
  /\ UNCHANGED <<user, nextCalls>>

\* req.user = {..., accessToken: token}; next()
Authorize(p, token) ==
  /\ user' = [user EXCEPT ![p] = AuthenticatedUser(token)]
  /\ nextCalls' = [nextCalls EXCEPT ![p] = @ + 1]
  /\ pc' = [pc EXCEPT ![p] = "start"]
  /\ UNCHANGED response

\* authMiddleware, which router.use puts before every handler: the header
\* check and users.getAuthenticated() through a client of its own
AuthMiddleware(p) ==
  /\ pc[p] = "auth"
  /\ LET token == TokenOfHeader(headers[p]) IN
       IF token \in {Undefined, <<>>}
       THEN /\ Unauthorized(p, "No token provided")
            /\ UNCHANGED calls
       ELSE \/ /\ LogAs(p, Octokit(token), "users.getAuthenticated", <<>>, 500)
               /\ Unauthorized(p, "Invalid token")
            \/ /\ token \notin ValidTokens
               /\ LogAs(p, Octokit(token), "users.getAuthenticated", <<>>, 401)
               /\ Unauthorized(p, "Invalid token")
            \/ /\ token \in ValidTokens
               /\ LogAs(p, Octokit(token), "users.getAuthenticated", <<>>, 200)
               /\ Authorize(p, token)
  /\ UNCHANGED <<github, now, req, owner, repo, branchName, attempt, baseBranch, baseRef,
                 issue, issueKey, ci, initialCommit, pr, result, error,
                 headers, octokit, call, ret, browser>>

\* the handler up to its first await: destructuring of req.body,
\* projectId.split('/') before the try, generateBranchName inside it
RouteStart(p) ==
  /\ pc[p] = "start"
  /\ IF req[p].projectId = Undefined
     THEN /\ RouteReject(p)
          /\ UNCHANGED <<owner, repo, branchName, octokit>>
     ELSE /\ LET parts == Split(req[p].projectId) IN
               /\ owner' = [owner EXCEPT ![p] = parts[1]]
               /\ repo' = [repo EXCEPT ![p] = IF Len(parts) >= 2 THEN parts[2] ELSE Undefined]
          /\ octokit' = [octokit EXCEPT ![p] = Octokit(user[p].accessToken)]
          /\ branchName' = [branchName EXCEPT ![p] =
                              Route_generateBranchName(req[p].type, req[p].title)]
          /\ pc' = [pc EXCEPT ![p] = "getRef"]
          /\ UNCHANGED response
  /\ UNCHANGED <<refs, issues, pulls, baseRef, issue, issueKey, pr, calls, routeIdle>>

\* git.getRef(heads/main), the argument of createRef
RouteGetRef(p) ==
  /\ pc[p] = "getRef"
  /\ \/ /\ Log(p, "getRef", Main, 500)
        /\ RouteCatch(p, StatusMessage(500))
        /\ UNCHANGED baseRef
     \/ /\ RepoExists(owner[p], repo[p]) /\ Main \in DOMAIN refs
        /\ Log(p, "getRef", Main, 200)
        /\ baseRef' = [baseRef EXCEPT ![p] = refs[Main]]
        /\ pc' = [pc EXCEPT ![p] = "createRef"]
        /\ UNCHANGED response
     \/ /\ ~(RepoExists(owner[p], repo[p]) /\ Main \in DOMAIN refs)
        /\ Log(p, "getRef", Main, 404)
        /\ RouteCatch(p, StatusMessage(404))
        /\ UNCHANGED baseRef
  /\ UNCHANGED <<refs, issues, pulls, owner, repo, branchName, issue, issueKey, pr, octokit, routeIdle>>

\* git.createRef(refs/heads/<branchName>), then the labels:
\* type.toLowerCase() throws inside the try when the body has no type
RouteCreateRef(p) ==
  /\ pc[p] = "createRef"
  /\ \/ /\ Log(p, "createRef", branchName[p], 500)
        /\ RouteCatch(p, StatusMessage(500))
        /\ UNCHANGED refs
     \/ /\ branchName[p] \in DOMAIN refs
        /\ Log(p, "createRef", branchName[p], 422)
        /\ RouteCatch(p, StatusMessage(422))
        /\ UNCHANGED refs
     \/ /\ branchName[p] \notin DOMAIN refs
        /\ Log(p, "createRef", branchName[p], 201)
        /\ refs' = (branchName[p] :> baseRef[p]) @@ refs
        /\ IF req[p].type = Missing
           THEN RouteCatch(p, TypeErrorMsg("toLowerCase"))
           ELSE /\ pc' = [pc EXCEPT ![p] = "issuesCreate"]
                /\ UNCHANGED response
  /\ UNCHANGED <<issues, pulls, owner, repo, branchName, baseRef, issue, issueKey, pr, octokit, routeIdle>>

\* issues.create, then generateIssueKey
RouteIssuesCreate(p) ==
  /\ pc[p] = "issuesCreate"
  /\ \/ /\ Log(p, "issues.create", <<>>, 500)
        /\ RouteCatch(p, StatusMessage(500))
        /\ UNCHANGED <<issues, issue, issueKey>>
     \/ /\ Log(p, "issues.create", <<>>, 201)
        /\ issues' = Append(issues, [number |-> NextNumber, title |-> req[p].title,
                                     body |-> IssueBody(p), updates |-> 0])
        /\ issue' = [issue EXCEPT ![p] = NextNumber]
        /\ issueKey' = [issueKey EXCEPT ![p] = generateIssueKey(req[p].projectId, NextNumber)]
        /\ pc' = [pc EXCEPT ![p] = "issuesUpdate"]
        /\ UNCHANGED response
  /\ UNCHANGED <<refs, pulls, owner, repo, branchName, baseRef, pr, octokit, routeIdle>>

\* issues.update(title: `[${issueKey}] ${title}`)
RouteIssuesUpdate(p) ==
  /\ pc[p] = "issuesUpdate"
  /\ \/ /\ Log(p, "issues.update", <<>>, 500)
        /\ RouteCatch(p, StatusMessage(500))
        /\ UNCHANGED issues
     \/ /\ Log(p, "issues.update", <<>>, 200)
        /\ issues' = [i \in DOMAIN issues |->
                        IF issues[i].number = issue[p]
                        THEN [issues[i] EXCEPT !.title = RenamedTitle(issueKey[p], req[p].title),
                                               !.updates = @ + 1]
                        ELSE issues[i]]
        /\ pc' = [pc EXCEPT ![p] = "pullsCreate"]
        /\ UNCHANGED response
  /\ UNCHANGED <<refs, pulls, owner, repo, branchName, baseRef, issue, issueKey, pr, octokit, routeIdle>>

\* pulls.create(base: 'main'), not guarded by a try of its own, then res.json
RoutePullsCreate(p) ==
  /\ pc[p] = "pullsCreate"
  /\ \/ /\ Log(p, "pulls.create", Main, 500)
        /\ RouteCatch(p, StatusMessage(500))
        /\ UNCHANGED <<pulls, pr>>
     \/ /\ Log(p, "pulls.create", Main, 201)
        /\ pulls' = Append(pulls, [number |-> NextNumber,
                                   title |-> RenamedTitle(issueKey[p], req[p].title),
                                   head |-> branchName[p], base |-> Main,
                                   body |-> ClosesBody(p), draft |-> TRUE])
        /\ pr' = [pr EXCEPT ![p] = NextNumber]
        /\ Respond(p, 200,
             [success |-> TRUE,
              issue |-> [number |-> issue[p], key |-> issueKey[p], branch |-> branchName[p]],
              pullRequest |-> NextNumber,
              branch |-> [name |-> branchName[p],
                          url |-> BranchUrl(owner[p], repo[p], branchName[p])]])
  /\ UNCHANGED <<refs, issues, owner, repo, branchName, baseRef, issue, issueKey, octokit, routeIdle>>

RouteNext ==
  \/ \E p \in Procs : AuthMiddleware(p)
  \/ \E p \in Procs : RouteStart(p)
  \/ \E p \in Procs : RouteGetRef(p)
  \/ \E p \in Procs : RouteCreateRef(p)
  \/ \E p \in Procs : RouteIssuesCreate(p)
  \/ \E p \in Procs : RouteIssuesUpdate(p)
  \/ \E p \in Procs : RoutePullsCreate(p)

RouteSpec == RouteInit /\ [][RouteNext]_vars

(* --------------------------------- C12 --------------------------------- *)
\* the handler of request p has run to its end
HandlerEnded(p) == pc[p] \in {"done", "unanswered"}

\* C12: every authenticated request whose handler has ended has received
\* exactly one response, either 200 with the creation result or 500 with
\* {error: 'Failed to create issue', details: <message>}, whatever its body.
C12_ExactlyOneResponse ==
  \A p \in Procs :
    HandlerEnded(p) =>
      /\ Len(response[p]) = 1
      /\ \/ /\ response[p][1].status = 200
            /\ response[p][1].body.success
         \/ /\ response[p][1].status = 500
            /\ DOMAIN response[p][1].body = {"error", "details"}
            /\ response[p][1].body.error = "Failed to create issue"

(* --------------------------------- C13 --------------------------------- *)
\* C13: when the issue and the branch were created and pulls.create failed,
\* the response of the served endpoint is a 200 partial-success payload
\* (issue and branch, no pull request), not a 500 error.
C13_PrFailureIsPartialSuccess ==
  \A p \in Procs :
    ( /\ Reserved(p) # {} /\ issue[p] # 0
      /\ \E i \in CallsOf(p, "pulls.create") : Failed(calls[p][i]) )
    =>
    ( /\ Len(response[p]) = 1
      /\ response[p][1].status = 200
      /\ response[p][1].body.success
      /\ response[p][1].body.pullRequest = 0 )

(* ------------------ helper functions applied on their own -------------- *)
\* longest word a title is built from, and how often it is repeated at most
MaxWord == 3
MaxRepeat == 11
\* largest timestamp passed to generateBranchName
MaxStamp == 1
\* largest issue number GitHub returns
MaxIssueNumber == 42
\* most labels a request supplies
MaxLabels == 2

\* characters of titles: a capital, a small letter, a digit, a space, and
\* two punctuation marks
TitleChars == {"A", "b", "7", " ", "!", "_"}

Words == UNION {[1..n -> TitleChars] : n \in 1..MaxWord}

RECURSIVE Repeat(_, _)
Repeat(w, n) == IF n = 0 THEN <<>> ELSE w \o Repeat(w, n - 1)

FnTitles == {Repeat(w, n) : w \in Words, n \in 0..MaxRepeat}

\* type values a caller may pass: the four of the union type and, since
\* nothing validates req.body.type, any other string
FnTypes == {"FEATURE", "BUG", "TASK", "EPIC", "STORY", "feature",
            "constructor", "toString", "__proto__"}

KeyProjectIds ==
  { <<"A","B","C","D","/","s","o","m","e","t","h","i","n","g">>,
    <<"a","b","/","c","d">>, <<"a","/","b">>, <<"a","b","c">>, <<>>,
    <<"A","b","1","-","x","/","y">>, <<"o","c","t","o","c","a","t","/","h","i">>,
    <<"m","y","c","o","m","p","a","n","y","/","w","e","b","a","p","p">>,
    <<"w","e","b","a","p","p","/","w","e","b","a","p","p">> }

\* label, type and priority strings of the labels expression
Lab(s) == CASE s = "bug" -> <<"b","u","g">>
            [] s = "Bug" -> <<"B","u","g">>
            [] s = "ui"  -> <<"u","i">>
            [] s = "low" -> <<"l","o","w">>
            [] s = "BUG" -> <<"B","U","G">>
            [] s = "TASK" -> <<"T","A","S","K">>
            [] s = "LOW" -> <<"L","O","W">>
            [] s = "HIGH" -> <<"H","I","G","H">>

UserLabels == {Lab("bug"), Lab("Bug"), Lab("ui"), Lab("low")}

LabelLists == UNION {[1..n -> UserLabels] : n \in 0..MaxLabels}

\* the applications: every title with one type and no timestamp, every type
\* and timestamp with two titles; every project identifier with every issue
\* number; every list of labels with every type and priority
FnCalls ==
  [fn : {"generateBranchName"}, type : {"FEATURE"}, title : FnTitles, timestamp : {0}]
    \cup [fn : {"generateBranchName"}, type : FnTypes,
          title : {<<"A","b">>, <<"!"," ","!">>}, timestamp : 0..MaxStamp]
    \cup [fn : {"generateIssueKey"}, projectId : KeyProjectIds,
          issueNumber : 1..MaxIssueNumber]
    \cup [fn : {"issueLabels"}, labels : LabelLists,
          type : {Lab("BUG"), Lab("TASK")}, priority : {Lab("LOW"), Lab("HIGH")}]

\* no request is running: the repository and every local at rest
Quiescent ==
  /\ req = [p \in Procs |-> [projectId |-> <<"a","b","/","c","d">>, type |-> "FEATURE",
                             title |-> <<"A","b">>]]
  /\ refs = BaseRefs(TRUE, TRUE)
  /\ commits = (MainSha :> [tree |-> 1, parents |-> <<>>])
                  @@ (MasterSha :> [tree |-> 2, parents |-> <<>>])
  /\ trees = (1 :> {<<"R">>}) @@ (2 :> {<<"R">>, <<"L">>})
  /\ blobs = [s \in {} |-> 0]
  /\ issues = <<>>
  /\ pulls = <<>>
  /\ now = 1
  /\ pc = [p \in Procs |-> "idle"]
  /\ owner = [p \in Procs |-> <<>>]
  /\ repo = [p \in Procs |-> <<>>]
  /\ branchName = [p \in Procs |-> <<>>]
  /\ attempt = [p \in Procs |-> 0]
  /\ baseBranch = [p \in Procs |-> <<>>]
  /\ baseRef = [p \in Procs |-> 0]
  /\ issue = [p \in Procs |-> 0]
  /\ issueKey = [p \in Procs |-> <<>>]
  /\ ci = [p \in Procs |-> NoCi]
  /\ initialCommit = [p \in Procs |-> 0]
  /\ pr = [p \in Procs |-> 0]
  /\ result = [p \in Procs |-> NoResult]
  /\ error = [p \in Procs |-> ""]
  /\ calls = [p \in Procs |-> <<>>]
  /\ response = [p \in Procs |-> <<>>]
  /\ headers = [p \in Procs |-> Bearer(Token(p))]
  /\ user = [p \in Procs |-> AuthenticatedUser(Token(p))]
  /\ nextCalls = [p \in Procs |-> 1]
  /\ octokit = [p \in Procs |-> Octokit(user[p].accessToken)]

\* either requests run through createIssueWithBranch (Init), or one helper
\* function is applied to arguments of its own
FnInit ==
  \/ Init
  \/ /\ Quiescent
     /\ NoBrowser
     /\ call \in FnCalls
     /\ ret = <<>>

\* the application has returned (no helper returns an empty value)
Applied(fn) == call.fn = fn /\ ret # <<>>

ApplyGenerateBranchName ==
  /\ call.fn = "generateBranchName" /\ ret = <<>>
  /\ ret' = generateBranchName(call.type, call.title, call.timestamp)
  /\ UNCHANGED <<github, now, pc, locals, calls, response, call, session, octokit, browser>>

ApplyGenerateIssueKey ==
  /\ call.fn = "generateIssueKey" /\ ret = <<>>
  /\ ret' = generateIssueKey(call.projectId, call.issueNumber)
  /\ UNCHANGED <<github, now, pc, locals, calls, response, call, session, octokit, browser>>

\* [...labels, type.toLowerCase(), priority.toLowerCase()]
issueLabels(labels, type, priority) ==
  labels \o <<toLowerCase(type), toLowerCase(priority)>>

ApplyIssueLabels ==
  /\ call.fn = "issueLabels" /\ ret = <<>>
  /\ ret' = issueLabels(call.labels, call.type, call.priority)
  /\ UNCHANGED <<github, now, pc, locals, calls, response, call, session, octokit, browser>>

\* GitHubUtils.previewBranchName(type, title)
previewBranchName(type, title) ==
  LET sanitized == substring(CollapseSpaces(StripNonAlnum(toLowerCase(title))), 30)
      prefixes == IF prefixMap(type) # <<>> THEN prefixMap(type) ELSE <<"undefined">>
  IN prefixes \o <<"/">> \o
       (IF sanitized # <<>> THEN sanitized ELSE <<"n","e","w","_","i","s","s","u","e">>)

\* generateBranchPreview() of the creation dialog, for formData.type and
\* formData.title
generateBranchPreview(type, title) ==
  LET sanitizedTitle == substring(CollapseSpaces(StripNonAlnum(toLowerCase(title))), 30)
      prefix == IF prefixMap(type) # <<>> THEN prefixMap(type) ELSE <<"undefined">>
      baseName == IF sanitizedTitle # <<>> THEN sanitizedTitle
                  ELSE <<"n","e","w","_","i","s","s","u","e">>
  IN prefix \o <<"/">> \o baseName

\* the key prefix the creation dialog announces:
\* repository.name.toUpperCase().substring(0, 4)
AnnouncedKeyPrefix(repository) == substring(toUpperCase(repository.name), 4)

\* `${repository.owner.login}/${repository.name}`, the projectId the dialog submits
ProjectIdOf(repository) == repository.owner \o <<"/">> \o repository.name

FnNext ==
  \/ Next
  \/ ApplyGenerateBranchName
  \/ ApplyGenerateIssueKey
  \/ ApplyIssueLabels

FnSpec == FnInit /\ [][FnNext]_vars

(* --------------------------------- C14 --------------------------------- *)
\* the number a string of decimal digits denotes, -1 for any other string
RECURSIVE DigitsValue(_)
DigitsValue(d) ==
  IF d = <<>> \/ d[Len(d)] \notin Range(DigitChars) THEN -1
  ELSE LET last == IndexOf(d[Len(d)], DigitChars) - 1 IN
         IF Len(d) = 1 THEN last
         ELSE LET front == DigitsValue(SubSeq(d, 1, Len(d) - 1)) IN
                IF front <= 0 THEN -1 ELSE 10 * front + last

\* k is: the first 4 characters of id (all of id when it is shorter), each
\* upper-cased, then '-', then the decimal digits of n
IsKeyOf(k, id, n) ==
  LET m == IF Len(id) < 4 THEN Len(id) ELSE 4 IN
    /\ Len(k) >= m + 2
    /\ \A i \in 1..m :
         /\ k[i] \notin Range(LowerChars)
         /\ LowerChar(k[i]) = LowerChar(id[i])
    /\ k[m + 1] = "-"
    /\ DigitsValue(SubSeq(k, m + 2, Len(k))) = n

IssueNo(n) == issues[CHOOSE i \in DOMAIN issues : issues[i].number = n]

\* t is '[' key '] ' followed by title
IsKeyedTitle(t, key, title) ==
  /\ Len(t) = Len(key) + Len(title) + 3
  /\ t[1] = "["
  /\ SubSeq(t, 2, Len(key) + 1) = key
  /\ t[Len(key) + 2] = "]"
  /\ t[Len(key) + 3] = " "
  /\ SubSeq(t, Len(key) + 4, Len(t)) = title

\* C15: a run that created its issue issues exactly one issues.update call,
\* as the call right after issues.create; the issue is modified at most
\* once, by that call when GitHub accepts it: its title becomes '[KEY] ' and
\* the original title, its number and body stay as created; no later step
\* (tracking commit, pull request, result) modifies it again.
C15_IssueRenamedOnce ==
  \A p \in Procs :
    /\ Count(p, "issues.update") <= 1
    /\ \A i \in CallsOf(p, "issues.update") :
         i > 1 /\ calls[p][i - 1].op = "issues.create" /\ calls[p][i - 1].status = 201
    /\ issue[p] = 0 => Count(p, "issues.update") = 0
    /\ issue[p] # 0 =>
         LET x == IssueNo(issue[p])
             accepted == \E i \in CallsOf(p, "issues.update") : calls[p][i].status = 200
         IN
           /\ IssueExists(issue[p])
           /\ pc[p] # "issuesUpdate" => Count(p, "issues.update") = 1
           /\ x.updates = (IF accepted THEN 1 ELSE 0)
           /\ x.title = req[p].title <=> ~accepted
           /\ accepted => IsKeyedTitle(x.title, issueKey[p], req[p].title)
           /\ x.body = <<"**Description:** ...", "**Branch:** ">> \o branchName[p]
           /\ Returned(p) => accepted

\* a request went through the tracking commit and the pull request after the
\* rename, and its issue has been modified once
C15_Witness ==
  \E p \in Procs :
    /\ Returned(p) /\ pr[p] # 0 /\ initialCommit[p] # 0
    /\ IssueNo(issue[p]).updates = 1
    /\ IssueNo(issue[p]).title = <<"[", "A","B","/","C", "-", "1", "]", " ", "A","b">>

(* --------------------------------- C16 --------------------------------- *)
\* C16: every pull request of the repository was created by a request as a
\* draft from the branch that request reserved to the base branch resolved
\* in the repository (main if it exists, else master); its title is the
\* renamed title '[KEY] original title' of the issue the request created,
\* and its body begins with 'Closes #N', N being that issue's number.
C16_PullRequestFields ==
  \A k \in DOMAIN pulls :
    \E p \in Procs :
      LET q == pulls[k] IN
        /\ q.draft
        /\ q.head \in Reserved(p) /\ q.head = branchName[p]
        /\ q.base = (IF Main \in DOMAIN refs THEN Main ELSE Master)
        /\ q.base \in DOMAIN refs
        /\ IssueExists(issue[p])
        /\ q.title = IssueNo(issue[p]).title
        /\ IsKeyedTitle(q.title, issueKey[p], req[p].title)
        /\ \E j \in 2..Len(q.body) :
             /\ q.body[1] = "Closes #"
             /\ DigitsValue(SubSeq(q.body, 2, j)) = issue[p]
             /\ q.body[j + 1] = "\n\n"

\* a draft pull request against master, in a repository without main
C16_Witness ==
  \E k \in DOMAIN pulls :
    /\ Main \notin DOMAIN refs
    /\ pulls[k].base = Master /\ pulls[k].draft
    /\ pulls[k].head = <<"f","e","a","t","u","r","e","/","a","b">>
    /\ pulls[k].body[1] = "Closes #"

(* --------------------------------- C17 --------------------------------- *)
\* C17: the labels sent to issues.create are the lower-cased user labels,
\* the lower-cased type and the lower-cased priority, as a set: every label
\* is lower case, none occurs twice, type and priority are among them.
C17_LabelsLowerCasedUnion ==
  Applied("issueLabels") =>
    /\ \A i \in DOMAIN ret : \A j \in DOMAIN ret[i] : ret[i][j] \notin Range(UpperChars)
    /\ \A i, j \in DOMAIN ret : i # j => ret[i] # ret[j]
    /\ Range(ret) = {toLowerCase(l) : l \in Range(call.labels)}
                      \cup {toLowerCase(call.type), toLowerCase(call.priority)}

(* --------------------------------- C18 --------------------------------- *)
\* position of the first '/' of a branch name
SlashAt(name) ==
  CHOOSE k \in DOMAIN name : name[k] = "/" /\ \A j \in 1..(k - 1) : name[j] # "/"

\* the type prefix of a generated branch name: what precedes the first '/'
PrefixOf(name) == SubSeq(name, 1, SlashAt(name) - 1)

\* what follows the '_' + timestamp suffix's place: the last n characters
LastChars(s, n) == SubSeq(s, Len(s) - n + 1, Len(s))

\* the slug of a generated branch name: what follows the first '/', without
\* the '_<timestamp>' suffix when a timestamp was given
SlugOf(name, timestamp) ==
  LET rest == SubSeq(name, SlashAt(name) + 1, Len(name))
      cut == IF timestamp = 0 THEN 0 ELSE Len(ToDigits(timestamp)) + 1
  IN SubSeq(rest, 1, Len(rest) - cut)

SlugChars == Range(LowerChars) \cup Range(DigitChars) \cup {"_"}

PunctuationOnly(title) ==
  /\ title # <<>>
  /\ \A i \in DOMAIN title :
       title[i] \notin Range(LowerChars) \cup Range(UpperChars) \cup Range(DigitChars)
  /\ title[1] \notin Whitespace /\ title[Len(title)] \notin Whitespace

\* C19: for the empty title and for every title of punctuation only the slug
\* is new_issue; the slug is never empty.
C19_PunctuationGivesNewIssue ==
  Applied("generateBranchName") =>
    /\ SlugOf(ret, call.timestamp) # <<>>
    /\ (call.title = <<>> \/ PunctuationOnly(call.title)) =>
         SlugOf(ret, call.timestamp) = <<"n","e","w","_","i","s","s","u","e">>

(* --------------------------------- C20 --------------------------------- *)
\* C20: the prefix is feature for FEATURE, hotfix for BUG, task for TASK,
\* epic for EPIC, and task for every other type value.
C20_PrefixTable ==
  Applied("generateBranchName") =>
    PrefixOf(ret) = CASE call.type = "FEATURE" -> <<"f","e","a","t","u","r","e">>
                      [] call.type = "BUG"     -> <<"h","o","t","f","i","x">>
                      [] call.type = "TASK"    -> <<"t","a","s","k">>
                      [] call.type = "EPIC"    -> <<"e","p","i","c">>
                      [] OTHER                 -> <<"t","a","s","k">>

(* --------------------------------- C21 --------------------------------- *)
\* C21: in every result the note is 'Issue, branch, and pull request created
\* successfully!' exactly when the result carries a pull request; without
\* one it is 'Issue and branch created successfully. Pull request creation
\* was skipped.', whether pulls.create was never called or was called and
\* failed.
C21_NoteTellsPullRequest ==
  \A p \in Procs :
    Returned(p) =>
      /\ result[p].pullRequest # 0 <=>
           result[p].notes = "Issue, branch, and pull request created successfully!"
      /\ result[p].pullRequest = 0 <=>
           result[p].notes =
             "Issue and branch created successfully. Pull request creation was skipped."
      /\ result[p].pullRequest # 0 <=>
           \E i \in CallsOf(p, "pulls.create") : calls[p][i].status = 201
      /\ result[p].pullRequest # 0 =>
           \E k \in DOMAIN pulls : pulls[k].number = result[p].pullRequest

\* one result without a pull request because pulls.create failed, one
\* because it was never called
C21_Witness ==
  \E p, q \in Procs :
    /\ Returned(p) /\ Count(p, "pulls.create") = 1 /\ result[p].pullRequest = 0
    /\ result[p].notes = NotesWithoutPr
    /\ Returned(q) /\ Count(q, "pulls.create") = 0 /\ result[q].notes = NotesWithoutPr

(* --------------------------------- C22 --------------------------------- *)
\* the bearer token request p arrived with
RequestToken(p) == TokenOfHeader(headers[p])

\* C22: every call to GitHub made while serving a request carries the bearer
\* token of that same request; when two concurrent requests carry different
\* tokens, no call of one carries the token of the other.
C22_CallsCarryOwnToken ==
  \A p \in Procs :
    \A i \in DOMAIN calls[p] :
      /\ calls[p][i].auth = RequestToken(p)
      /\ \A q \in Procs \ {p} :
           RequestToken(q) # RequestToken(p) => calls[p][i].auth # RequestToken(q)

\* two requests of different users, each served to its end
C22_Witness ==
  /\ RequestToken(1) # RequestToken(2)
  /\ \A p \in Procs :
       /\ RequestToken(p) \in ValidTokens
       /\ Count(p, "users.getAuthenticated") = 1
       /\ Count(p, "getRef") = 1
       /\ Count(p, "createRef") = 1
       /\ pc[p] = "done"

(* --------------------------------- C23 --------------------------------- *)
\* the handler of request p has been entered
HandlerRan(p) == pc[p] \notin {"auth", "unauthorized"}

\* the middleware answered request p with 401
Rejected(p) == \E i \in DOMAIN response[p] : response[p][i].status = 401

\* C23: the handler of a protected route runs only after GitHub accepted the
\* request's token and req.user was set with that token; a request without
\* a token gets 401 without any call to GitHub, a request whose token GitHub
\* rejects gets 401, and in both cases the handler never runs; next() and
\* the 401 never both happen, and next() is called at most once.
C23_HandlerOnlyAfterAuthentication ==
  \A p \in Procs :
    /\ (HandlerRan(p) \/ nextCalls[p] > 0) =>
         /\ nextCalls[p] = 1
         /\ RequestToken(p) \in ValidTokens
         /\ user[p] # NoUser /\ user[p].accessToken = RequestToken(p)
         /\ calls[p] # <<>>
         /\ calls[p][1].op = "users.getAuthenticated" /\ calls[p][1].status = 200
         /\ calls[p][1].auth = RequestToken(p)
    /\ (pc[p] # "auth" /\ RequestToken(p) \in {Undefined, <<>>}) =>
         /\ calls[p] = <<>>
         /\ response[p] = <<[status |-> 401, body |-> [error |-> "No token provided"]]>>
         /\ ~HandlerRan(p) /\ nextCalls[p] = 0
    /\ (pc[p] # "auth" /\ RequestToken(p) \notin {Undefined, <<>>} \cup ValidTokens) =>
         /\ response[p] = <<[status |-> 401, body |-> [error |-> "Invalid token"]]>>
         /\ ~HandlerRan(p) /\ nextCalls[p] = 0
    /\ ~(Rejected(p) /\ nextCalls[p] > 0)
    /\ Rejected(p) => pc[p] = "unauthorized" /\ user[p] = NoUser

\* one request was stopped for want of a token, the other passed the
\* middleware and its handler answered
C23_Witness ==
  \E p, q \in Procs :
    /\ headers[p] = Undefined /\ pc[p] = "unauthorized"
    /\ nextCalls[q] = 1 /\ pc[q] = "done" /\ Len(response[q]) = 1
    /\ response[q][1].status = 200

\* a request was stopped because GitHub rejected its token
C23_WitnessRejected ==
  \E p \in Procs :
    /\ RequestToken(p) = BadToken /\ pc[p] = "unauthorized"
    /\ \E i \in DOMAIN calls[p] : calls[p][i].status = 401

(* --------------------------------- C24 --------------------------------- *)
\* the calls of createInitialCommit, in the order they were made
NotPullsCreate(c) == c.op # "pulls.create"
CiLog(p) ==
  IF CallsOf(p, "issues.update") = {} THEN <<>>
  ELSE LET u == CHOOSE i \in CallsOf(p, "issues.update") : TRUE
       IN SelectSeq(SubSeq(calls[p], u + 1, Len(calls[p])), NotPullsCreate)

CiOrder == <<"getRef", "getCommit", "createBlob", "createTree", "createCommit", "updateRef">>

\* C24: when every step of the tracking commit succeeded, the calls were
\* getRef, getCommit, createBlob, createTree, createCommit, updateRef in
\* this order; the new branch then points at one new commit whose only
\* parent is the head read at the start and whose tree is that head's tree
\* plus exactly the one file ISSUE_<key>.md; the base branch is unmoved.
C24_TrackingCommit ==
  \A p \in Procs :
    initialCommit[p] # 0 =>
      LET head == baseRef[p]
          tip == refs[branchName[p]]
          file == <<"ISSUE_">> \o issueKey[p] \o <<".md">>
          log == CiLog(p)
      IN /\ Len(log) = 6
         /\ \A k \in 1..6 : log[k].op = CiOrder[k] /\ ~Failed(log[k])
         /\ ci[p].branchRef = head /\ ci[p].currentCommit = head
         /\ tip = initialCommit[p] /\ tip # head
         /\ tip \notin {refs[baseBranch[p]], MainSha, MasterSha}
         /\ commits[tip].parents = <<head>>
         /\ trees[commits[tip].tree] = trees[commits[head].tree] \cup {file}
         /\ file \notin trees[commits[head].tree]
         /\ blobs[ci[p].blob].issueKey = issueKey[p]
         /\ refs[baseBranch[p]] = head
         /\ \A q \in Procs \ {p} : initialCommit[q] # 0 => refs[branchName[q]] # tip

\* both requests got their tracking commit
C24_Witness ==
  \A p \in Procs : Returned(p) /\ initialCommit[p] # 0 /\ refs[branchName[p]] = initialCommit[p]

(* --------------------------------- C26 --------------------------------- *)
\* a step of createInitialCommit of request p has failed
CiStepFailed(p) == LET log == CiLog(p) IN \E k \in DOMAIN log : Failed(log[k])

\* C26: when any step of the tracking commit fails, createInitialCommit
\* answers null and does not throw: the call makes no further step, still
\* returns its result, and the new branch still points at the base commit,
\* as does the base branch.
C26_FailedCommitLeavesRefs ==
  \A p \in Procs :
    CiStepFailed(p) =>
      LET log == CiLog(p) IN
      /\ initialCommit[p] = 0
      /\ Returned(p) /\ ~Threw(p)
      /\ ~result[p].hasInitialCommit
      /\ Failed(log[Len(log)])
      /\ \A k \in 1..(Len(log) - 1) : ~Failed(log[k])
      /\ refs[branchName[p]] = baseRef[p]
      /\ refs[baseBranch[p]] = baseRef[p]

\* the last step, updateRef, failed after the commit object was created
C26_Witness ==
  \E p \in Procs :
    /\ \E i \in CallsOf(p, "updateRef") : Failed(calls[p][i])
    /\ ci[p].commit \in DOMAIN commits /\ ci[p].commit # 0
    /\ Returned(p) /\ refs[branchName[p]] = baseRef[p]

(* --------------------------------- C27 --------------------------------- *)
\* C27: when issues.update fails after the issue was created, the call
\* rejects with 'Failed to create issue: <cause>', makes no tracking-commit
\* call and no pulls.create call, and leaves the issue with its original
\* title without key and the reserved branch.
C27_UpdateFailureThrows ==
  \A p \in Procs :
    (\E i \in CallsOf(p, "issues.update") : Failed(calls[p][i])) =>
      /\ Threw(p) /\ ~Returned(p)
      /\ error[p] = "Failed to create issue: " \o StatusMessage(500)
      /\ calls[p][Len(calls[p])].op = "issues.update"
      /\ Count(p, "issues.update") = 1
      /\ Count(p, "pulls.create") = 0
      /\ \A op \in Range(CiOrder) \ {"getRef"} : Count(p, op) = 0
      /\ issue[p] # 0
      /\ \E i \in DOMAIN issues :
           /\ issues[i].number = issue[p]
           /\ issues[i].title = req[p].title
           /\ issues[i].updates = 0
      /\ branchName[p] \in DOMAIN refs /\ refs[branchName[p]] = baseRef[p]

C27_Witness ==
  \E p \in Procs :
    /\ Threw(p)
    /\ \E i \in CallsOf(p, "issues.update") : Failed(calls[p][i])
    /\ IssueExists(issue[p]) /\ branchName[p] \in DOMAIN refs

(* --------------------------------- C25 --------------------------------- *)
\* the repository a projectId of the form owner/name denotes
RepositoryOf(projectId) ==
  [owner |-> Split(projectId)[1], name |-> Split(projectId)[2]]

\* C25: the key announced before creation (the first 4 upper-cased
\* characters of the repository name, then '-' and the issue number) is the
\* key the backend assigns, for every owner and repository.
C25_AnnouncedKeyIsAssigned ==
  ( /\ Applied("generateIssueKey")
    /\ Len(Split(call.projectId)) = 2
    /\ ProjectIdOf(RepositoryOf(call.projectId)) = call.projectId )
  => ret = AnnouncedKeyPrefix(RepositoryOf(call.projectId))
             \o <<"-">> \o ToDigits(call.issueNumber)

(* --------------------------------- C28 --------------------------------- *)
\* C28: for each of the four types and every title, the preview helper, the
\* dialog's preview, the orchestrator's first candidate and the name the
\* inline route creates are the same string.
C28_OneBranchName ==
  ( /\ Applied("generateBranchName") /\ call.timestamp = 0
    /\ call.type \in {"FEATURE", "BUG", "TASK", "EPIC"} )
  => /\ ret = generateBranchName(call.type, call.title, 0)
     /\ ret = previewBranchName(call.type, call.title)
     /\ ret = generateBranchPreview(call.type, call.title)
     /\ ret = Route_generateBranchName(call.type, call.title)

(* ------------------------- the frontend application -------------------- *)
(* One page load of the React application: App with its Routes, the        *)
(* AuthSuccess page and the Navbar. useAuth() is a plain hook: every        *)
(* component that calls it has a state of its own.                          *)

Components == {"App", "AuthSuccess", "Navbar"}

\* the backend is not part of a page load
backend == <<github, now, pc, locals, calls, response, call, ret, session, octokit>>

\* useState initial values of useAuth() in a component that has just mounted;
\* effect is the position of its checkAuthStatus
Fresh == [mounted |-> TRUE, loading |-> TRUE, isAuthenticated |-> FALSE,
          user |-> NoOne, effect |-> "pending"]
Absent == [mounted |-> FALSE, loading |-> TRUE, isAuthenticated |-> FALSE,
           user |-> NoOne, effect |-> "idle"]

\* a component leaves the tree: its state is dropped, a verifyToken request
\* it has in flight still completes
Unmount(a) == IF a.effect = "verifying" THEN [Absent EXCEPT !.effect = "verifying"] ELSE Absent

\* the user GET /auth/verify answers for a token
VerifiedUser(token) == [login |-> <<"u">> \o token]

\* JSON.stringify(userData) and encodeURIComponent of it; JSON.parse of
\* anything else throws
Stringify(userData) == [json |-> userData]
Garbage == [text |-> "%7Bnot json"]
Parseable(text) == DOMAIN text = {"json"}
Parse(text) == text.json

\* what App returns for hook states a and pathname loc
RenderedIn(c, a, loc) ==
  CASE c = "App" -> TRUE
    [] c = "Navbar" -> ~a["App"].loading /\ a["App"].isAuthenticated
    [] c = "AuthSuccess" -> ~a["App"].loading /\ loc = "/auth/success"

ScreenOf(a, loc) ==
  IF a["App"].loading THEN "Loading"
  ELSE CASE loc = "/login" -> IF ~a["App"].isAuthenticated THEN "Login" ELSE "Navigate"
         [] loc = "/auth/success" -> "AuthSuccess"
         [] loc = "/dashboard" -> IF a["App"].isAuthenticated THEN "Dashboard" ELSE "Navigate"
         [] loc = "/repository" ->
              IF a["App"].isAuthenticated THEN "RepositoryDetails" ELSE "Navigate"
         [] OTHER -> "Navigate"

\* the `to` of the <Navigate> that App renders
NavigateTo(a, loc) ==
  CASE loc = "/login" -> "/dashboard"
    [] loc \in {"/dashboard", "/repository"} -> "/login"
    [] OTHER -> IF a["App"].isAuthenticated THEN "/dashboard" ELSE "/login"

\* the state updates a1 and the location loc1 are committed and App renders
\* again: components enter and leave the tree
Show(a1, loc1, events) ==
  LET a2 == [c \in Components |->
               IF RenderedIn(c, a1, loc1)
               THEN (IF auth[c].mounted THEN a1[c] ELSE Fresh)
               ELSE Unmount(a1[c])]
      screen == ScreenOf(a2, loc1)
  IN /\ auth' = a2
     /\ location' = loc1
     /\ journal' = journal \o events \o
                     (IF events # <<>> \/ screen # ScreenOf(auth, location)
                      THEN <<screen>> ELSE <<>>)

\* checkAuthStatus of component c up to its first await
CheckAuthStatus(a, c) ==
  IF localStorage.github_token = Null
  THEN [a EXCEPT ![c].loading = FALSE, ![c].effect = "idle"]
  ELSE [a EXCEPT ![c].effect = "verifying"]

\* the two localStorage.setItem of handleAuthSuccess
StoreLogin(token, userData) ==
  localStorage' = [github_token |-> token, github_user |-> Stringify(userData)]

\* the two localStorage.removeItem of logout and of checkAuthStatus's catch
ClearLogin == localStorage' = [github_token |-> Null, github_user |-> NoOne]

\* pages the browser may be opened at
Paths == {"/", "/login", "/auth/success", "/dashboard", "/repository"}

\* a page load: a token of an earlier login may be stored (valid or expired),
\* the URL may carry the token and user of a login
AppInit ==
  /\ Quiescent
  /\ call = NoCall
  /\ ret = <<>>
  /\ \E stored \in {Null, Token(2), BadToken} :
       localStorage = [github_token |-> stored,
                       github_user |-> IF stored = Null THEN NoOne
                                       ELSE Stringify(VerifiedUser(stored))]
  /\ location \in Paths
  /\ searchParams \in
       IF location = "/auth/success"
       THEN { [token |-> Token(1), user |-> Stringify(VerifiedUser(Token(1)))],
              [token |-> Token(1), user |-> Garbage],
              [token |-> Token(1), user |-> NoOne],
              [token |-> Null, user |-> NoOne] }
       ELSE { [token |-> Null, user |-> NoOne] }
  /\ auth = [c \in Components |-> IF c = "App" THEN Fresh ELSE Absent]
  /\ journal = <<"Loading">>

\* useEffect(() => { checkAuthStatus() }, []) of the hook in App
AppEffect ==
  /\ auth["App"].effect = "pending"
  /\ Show(CheckAuthStatus(auth, "App"), location, <<>>)
  /\ UNCHANGED <<localStorage, searchParams, backend>>

\* the same effect in Navbar
NavbarEffect ==
  /\ auth["Navbar"].mounted /\ auth["Navbar"].effect = "pending"
  /\ Show(CheckAuthStatus(auth, "Navbar"), location, <<>>)
  /\ UNCHANGED <<localStorage, searchParams, backend>>

\* the effects of AuthSuccess after it mounted: the hook's checkAuthStatus,
\* then the page's own effect
AuthSuccessEffect ==
  /\ auth["AuthSuccess"].mounted /\ auth["AuthSuccess"].effect = "pending"
  /\ LET a1 == CheckAuthStatus(auth, "AuthSuccess")
         token == searchParams.token
         userParam == searchParams.user
     IN IF token # Null /\ userParam # NoOne /\ Parseable(userParam)
        THEN /\ StoreLogin(token, Parse(userParam))
             /\ Show([a1 EXCEPT !["AuthSuccess"].user = Parse(userParam),
                                !["AuthSuccess"].isAuthenticated = TRUE],
                     "/dashboard", <<"handleAuthSuccess">>)
        ELSE /\ Show(a1, "/login", <<>>)
             /\ UNCHANGED localStorage
  /\ UNCHANGED <<searchParams, backend>>

\* authApi.verifyToken() of component c answers: GET /auth/verify with the
\* stored token, then the rest of checkAuthStatus
VerifyReturns(c) ==
  /\ auth[c].effect = "verifying"
  /\ \/ /\ localStorage.github_token \in ValidTokens
        /\ Show([auth EXCEPT ![c] = IF @.mounted
                                    THEN [@ EXCEPT !.user = VerifiedUser(localStorage.github_token),
                                                   !.isAuthenticated = TRUE,
                                                   !.loading = FALSE, !.effect = "idle"]
                                    ELSE Absent],
                location, <<>>)
        /\ UNCHANGED localStorage
     \/ /\ ClearLogin
        /\ Show([auth EXCEPT ![c] = IF @.mounted
                                    THEN [@ EXCEPT !.loading = FALSE, !.effect = "idle"]
                                    ELSE Absent],
                location, <<>>)
  /\ UNCHANGED <<searchParams, backend>>

\* the <Navigate> element App rendered replaces the location
Redirect ==
  /\ ScreenOf(auth, location) = "Navigate"
  /\ Show(auth, NavigateTo(auth, location), <<>>)
  /\ UNCHANGED <<localStorage, searchParams, backend>>

\* Navbar.handleLogout: logout(); navigate('/login')
HandleLogout ==
  /\ auth["Navbar"].mounted /\ auth["Navbar"].user # NoOne
  /\ ClearLogin
  /\ Show([auth EXCEPT !["Navbar"].user = NoOne, !["Navbar"].isAuthenticated = FALSE],
          "/login", <<"logout">>)
  /\ UNCHANGED <<searchParams, backend>>

AppNext ==
  \/ AppEffect
  \/ NavbarEffect
  \/ AuthSuccessEffect
  \/ \E c \in Components : VerifyReturns(c)
  \/ Redirect
  \/ HandleLogout

AppSpec == AppInit /\ [][AppNext]_vars

\* nothing is pending: every effect has run, every request was answered and
\* no <Navigate> is on the screen
Settled ==
  /\ \A c \in Components : auth[c].effect = "idle"
  /\ ScreenOf(auth, location) # "Navigate"

Happened(event) == \E i \in DOMAIN journal : journal[i] = event
\* what the journal holds after the last occurrence of event
Since(event) ==
  LET last == CHOOSE i \in DOMAIN journal :
                 journal[i] = event /\ \A j \in (i + 1)..Len(journal) : journal[j] # event
  IN SubSeq(journal, last + 1, Len(journal))

(* --------------------------------- C29 --------------------------------- *)
\* C29: once /auth/success was opened with a token and a parseable user and
\* the application has come to rest, the token and the user are in
\* localStorage and the application shows the Dashboard at /dashboard; it
\* was not sent to /login.
C29_LoginLandsOnDashboard ==
  (Happened("handleAuthSuccess") /\ ~Happened("logout") /\ Settled) =>
    /\ localStorage.github_token = searchParams.token
    /\ localStorage.github_user = Stringify(Parse(searchParams.user))
    /\ location = "/dashboard"
    /\ ScreenOf(auth, location) = "Dashboard"
    /\ "Login" \notin Range(Since("handleAuthSuccess"))

(* --------------------------------- C30 --------------------------------- *)
\* C30: once the user has logged out through the Navbar and the application
\* has come to rest, token and user are gone from localStorage and the
\* application is on /login; no protected page was rendered since.
C30_LogoutLandsOnLogin ==
  (Happened("logout") /\ Settled) =>
    /\ localStorage = [github_token |-> Null, github_user |-> NoOne]
    /\ location = "/login"
    /\ ScreenOf(auth, location) = "Login"
    /\ Range(Since("logout")) \cap {"Dashboard", "RepositoryDetails"} = {}

====
